---- MODULE Spec2Model ----
(***************************************************************************)
(* Off-policy estimators of obp/ope/estimators.py as a state machine.      *)
(*                                                                         *)
(* An estimator instance is constructed (__post_init__), then called any   *)
(* number of times; each call receives a batch of logged bandit feedback   *)
(* and returns a vector of round rewards or a scalar policy value.         *)
(*                                                                         *)
(* Numbers.  A float is modelled as an extended rational [n, d]: d > 0 is  *)
(* the rational n/d in lowest terms, d = 0 is +inf (n = 1), -inf (n = -1)  *)
(* or nan (n = 0).  The operations follow IEEE-754 as numpy applies it to  *)
(* arrays (x/0 = +-inf, 0/0 = nan, inf*0 = nan, nan propagates, every      *)
(* comparison with nan is false); rounding and signed zeros are not        *)
(* modelled.                                                               *)
(***************************************************************************)
EXTENDS Integers, Sequences, FiniteSets, TLC

VARIABLES estimator, pc, op, args, ret, kept, other

vars == <<estimator, pc, op, args, ret, kept, other>>

\* Largest number of rounds (n_rounds) of a generated batch.
MaxRounds == 2

\* Largest n_bootstrap_samples for which the resamples are drawn one by one.
MaxResamples == 2

(***************************************************************************)
(* float arithmetic                                                        *)
(***************************************************************************)
Abs(i) == IF i < 0 THEN -i ELSE i

Sign(i) == IF i < 0 THEN -1 ELSE IF i > 0 THEN 1 ELSE 0

RECURSIVE Gcd(_, _)
Gcd(a, b) == IF b = 0 THEN a ELSE Gcd(b, a % b)

\* The float n/d for integers n, d (d may be 0 or negative).
Float(n, d) ==
    IF d = 0 THEN [n |-> Sign(n), d |-> 0]
    ELSE LET g == Gcd(Abs(n), Abs(d))
             s == Sign(d)
         IN  [n |-> (s * n) \div g, d |-> (s * d) \div g]

Num(i) == [n |-> i, d |-> 1]

inf == [n |-> 1, d |-> 0]

nan == [n |-> 0, d |-> 0]

IsNan(x) == x.n = 0 /\ x.d = 0

IsFinite(x) == x.d # 0

\* x + y
Add(x, y) ==
    IF IsNan(x) \/ IsNan(y) THEN nan
    ELSE IF x.d = 0 /\ y.d = 0 THEN (IF x.n = y.n THEN x ELSE nan)
    ELSE IF x.d = 0 THEN x
    ELSE IF y.d = 0 THEN y
    ELSE Float(x.n * y.d + y.n * x.d, x.d * y.d)

\* -x
Neg(x) == [n |-> -(x.n), d |-> x.d]

\* x - y
Sub(x, y) == Add(x, Neg(y))

\* x * y
Mul(x, y) == Float(x.n * y.n, x.d * y.d)

\* x / y
Div(x, y) == Float(x.n * y.d * (IF y.n < 0 THEN -1 ELSE 1), x.d * Abs(y.n))

\* x <= y
Leq(x, y) ==
    IF IsNan(x) \/ IsNan(y) THEN FALSE
    ELSE IF x.d = 0 /\ y.d = 0 THEN x.n <= y.n
    ELSE IF x.d = 0 THEN x.n < 0
    ELSE IF y.d = 0 THEN y.n > 0
    ELSE x.n * y.d <= y.n * x.d

\* x < y
Lt(x, y) == Leq(x, y) /\ x # y

\* faulty variant of Minimum: the larger of the two
Minimum_larger(x, y) ==
    IF IsNan(x) \/ IsNan(y) THEN nan
    ELSE IF Leq(x, y) THEN y ELSE x

\* np.minimum(x, y), element by element: nan if either is nan
Minimum(x, y) ==
    IF IsNan(x) \/ IsNan(y) THEN nan
    ELSE IF Leq(x, y) THEN x ELSE y

(***************************************************************************)
(* arrays: a vector is a sequence indexed by the round 1..n_rounds; a 3-D  *)
(* array x of shape (n_rounds, n_actions, len_list) is x[t][a][p] with     *)
(* actions and positions counted from 0; an Optional argument is None or   *)
(* Some(value)                                                             *)
(***************************************************************************)
None == << >>

Some(x) == <<x>>

Get(x) == x[1]

RECURSIVE Sum(_)
\* ndarray.sum() of a vector
Sum(v) == IF v = << >> THEN Num(0) ELSE Add(Sum(SubSeq(v, 1, Len(v) - 1)), v[Len(v)])

\* ndarray.mean() of a vector
Mean(v) == Div(Sum(v), Num(Len(v)))

\* np.zeros(action_dist.shape[0], dtype=int)
Zeros(action_dist) == [t \in 1..Len(action_dist) |-> 0]

\* `if position is None: position = np.zeros(action_dist.shape[0], dtype=int)`
PositionOrZeros(position, action_dist) ==
    IF position = None THEN Zeros(action_dist) ELSE Get(position)

\* faulty variant of Factual: the value of action 0 whatever the logged action
Factual_first_action(x, action, position) == [t \in 1..Len(action) |-> x[t][0][position[t]]]

\* x[np.arange(n_rounds), action, position]
Factual(x, action, position) == [t \in 1..Len(action) |-> x[t][action[t]][position[t]]]

RECURSIVE SumOver(_, _)
\* sum of f over the actions 0..n-1
SumOver(f, n) == IF n = 0 THEN Num(0) ELSE Add(SumOver(f, n - 1), f[n - 1])

\* faulty variant of Average: the plain mean over the actions, without the weights
Average_unweighted(estimated_rewards_by_reg_model, action_dist, position) ==
    [t \in 1..Len(position) |->
        LET n_actions == Cardinality(DOMAIN action_dist[t])
        IN  Div(SumOver([a \in DOMAIN action_dist[t] |->
                           estimated_rewards_by_reg_model[t][a][position[t]]], n_actions),
                Num(n_actions))]

\* np.average(q_hat_at_position, weights=pi_e_at_position, axis=1) where both are
\* x[np.arange(n_rounds), :, position]
Average(estimated_rewards_by_reg_model, action_dist, position) ==
    [t \in 1..Len(position) |->
        LET n_actions == Cardinality(DOMAIN action_dist[t])
            q_hat_at_position == [a \in DOMAIN action_dist[t] |->
                                    estimated_rewards_by_reg_model[t][a][position[t]]]
            pi_e_at_position == [a \in DOMAIN action_dist[t] |-> action_dist[t][a][position[t]]]
        IN  Div(SumOver([a \in DOMAIN action_dist[t] |->
                           Mul(q_hat_at_position[a], pi_e_at_position[a])], n_actions),
                SumOver(pi_e_at_position, n_actions))]

\* iw = action_dist[np.arange(n_rounds), action, position] / pscore
ImportanceWeight(action_dist, action, position, pscore) ==
    [t \in 1..Len(action) |-> Div(action_dist[t][action[t]][position[t]], pscore[t])]

(***************************************************************************)
(* _estimate_round_rewards of each class                                   *)
(***************************************************************************)
\* faulty variant of ActionMatch: any positive probability is a match
ActionMatch_positive(action_dist, action, position) ==
    [t \in 1..Len(action) |->
        IF Lt(Num(0), action_dist[t][action[t]][position[t]]) THEN Num(1) ELSE Num(0)]

\* action_match = np.array(action_dist[np.arange(n), action, position] == 1)
ActionMatch(action_dist, action, position) ==
    [t \in 1..Len(action) |->
        IF action_dist[t][action[t]][position[t]] = Num(1) THEN Num(1) ELSE Num(0)]

\* faulty variant of ReplayMethod._estimate_round_rewards: no test of action_match.sum()
ReplayMethod_unguarded(reward, action, action_dist, position) ==
    LET position_ == PositionOrZeros(position, action_dist)
        action_match == [t \in 1..Len(action) |->
                           IF action_dist[t][action[t]][position_[t]] = Num(1)
                           THEN Num(1) ELSE Num(0)]
    IN  [t \in 1..Len(action) |-> Div(Mul(action_match[t], reward[t]), Mean(action_match))]

ReplayMethod_estimate_round_rewards(reward, action, action_dist, position) ==
    LET position_ == PositionOrZeros(position, action_dist)
        action_match == ActionMatch(action_dist, action, position_)
    IN  IF Lt(Num(0), Sum(action_match))
        THEN [t \in 1..Len(action) |->
                Div(Mul(action_match[t], reward[t]), Mean(action_match))]
        ELSE [t \in 1..Len(action) |-> Num(0)]

\* faulty variant of Clip: no clipping
Clip_none(iw, lambda_) == iw

\* weight clipping: iw = np.minimum(iw, self.lambda_)
Clip(iw, lambda_) == [t \in 1..Len(iw) |-> Minimum(iw[t], lambda_)]

InverseProbabilityWeighting_estimate_round_rewards(self, reward, action, pscore, action_dist, position) ==
    LET position_ == PositionOrZeros(position, action_dist)
        iw == Clip(ImportanceWeight(action_dist, action, position_, pscore), self.lambda_)
    IN  [t \in 1..Len(reward) |-> Mul(reward[t], iw[t])]

\* faulty variant of SelfNormalizedInverseProbabilityWeighting._estimate_round_rewards:
\* the weights are clipped at lambda_ as in the base class
SelfNormalizedInverseProbabilityWeighting_clipped(self, reward, action, pscore, action_dist, position) ==
    LET position_ == PositionOrZeros(position, action_dist)
        iw == [t \in 1..Len(action) |->
                 Minimum(Div(action_dist[t][action[t]][position_[t]], pscore[t]), self.lambda_)]
    IN  [t \in 1..Len(reward) |-> Div(Mul(reward[t], iw[t]), Mean(iw))]

\* faulty variant of SelfNormalizedInverseProbabilityWeighting._estimate_round_rewards:
\* the weights are not divided by their mean
SelfNormalizedInverseProbabilityWeighting_unnormalized(self, reward, action, pscore, action_dist, position) ==
    LET position_ == PositionOrZeros(position, action_dist)
        iw == ImportanceWeight(action_dist, action, position_, pscore)
    IN  [t \in 1..Len(reward) |-> Mul(reward[t], iw[t])]

SelfNormalizedInverseProbabilityWeighting_estimate_round_rewards(self, reward, action, pscore, action_dist, position) ==
    LET position_ == PositionOrZeros(position, action_dist)
        iw == ImportanceWeight(action_dist, action, position_, pscore)
    IN  [t \in 1..Len(reward) |-> Div(Mul(reward[t], iw[t]), Mean(iw))]

DirectMethod_estimate_round_rewards(action_dist, estimated_rewards_by_reg_model, position) ==
    LET position_ == PositionOrZeros(position, action_dist)
    IN  Average(estimated_rewards_by_reg_model, action_dist, position_)

\* estimated_rewards += iw_hat * (reward - q_hat_factual)
AddCorrection(estimated_rewards, iw_hat, reward, q_hat_factual) ==
    [t \in 1..Len(reward) |->
        Add(estimated_rewards[t], Mul(iw_hat[t], Sub(reward[t], q_hat_factual[t])))]

DoublyRobust_estimate_round_rewards(self, reward, action, pscore, action_dist, estimated_rewards_by_reg_model, position) ==
    LET position_ == PositionOrZeros(position, action_dist)
        iw == Clip(ImportanceWeight(action_dist, action, position_, pscore), self.lambda_)
        q_hat_factual == Factual(estimated_rewards_by_reg_model, action, position_)
        estimated_rewards == Average(estimated_rewards_by_reg_model, action_dist, position_)
    IN  AddCorrection(estimated_rewards, iw, reward, q_hat_factual)

\* faulty variant of SelfNormalizedDoublyRobust._estimate_round_rewards: the weights are
\* clipped at lambda_ as in the base class
SelfNormalizedDoublyRobust_clipped(self, reward, action, pscore, action_dist, estimated_rewards_by_reg_model, position) ==
    LET position_ == Get(position)
        iw == [t \in 1..Len(action) |->
                 Minimum(Div(action_dist[t][action[t]][position_[t]], pscore[t]), self.lambda_)]
        estimated_rewards == Average(estimated_rewards_by_reg_model, action_dist, position_)
        q_hat_factual == Factual(estimated_rewards_by_reg_model, action, position_)
    IN  [t \in 1..Len(reward) |->
            Add(estimated_rewards[t],
                Div(Mul(iw[t], Sub(reward[t], q_hat_factual[t])), Mean(iw)))]

\* SelfNormalizedDoublyRobust, SwitchDoublyRobust and DoublyRobustWithShrinkage index
\* with the position they are given: they have no `if position is None` line.
SelfNormalizedDoublyRobust_estimate_round_rewards(self, reward, action, pscore, action_dist, estimated_rewards_by_reg_model, position) ==
    LET position_ == Get(position)
        iw == ImportanceWeight(action_dist, action, position_, pscore)
        estimated_rewards == Average(estimated_rewards_by_reg_model, action_dist, position_)
        q_hat_factual == Factual(estimated_rewards_by_reg_model, action, position_)
    IN  [t \in 1..Len(reward) |->
            Add(estimated_rewards[t],
                Div(Mul(iw[t], Sub(reward[t], q_hat_factual[t])), Mean(iw)))]

\* faulty variants of switch_indicator: no switching, the comparison reversed, a strict threshold
switch_indicator_always(iw, lambda_) == [t \in 1..Len(iw) |-> Num(1)]

switch_indicator_reversed(iw, lambda_) == [t \in 1..Len(iw) |-> IF Leq(lambda_, iw[t]) THEN Num(1) ELSE Num(0)]

switch_indicator_strict(iw, lambda_) == [t \in 1..Len(iw) |-> IF Lt(iw[t], lambda_) THEN Num(1) ELSE Num(0)]

\* switch_indicator = np.array(iw <= self.lambda_, dtype=int)
switch_indicator(iw, lambda_) == [t \in 1..Len(iw) |-> IF Leq(iw[t], lambda_) THEN Num(1) ELSE Num(0)]

SwitchDoublyRobust_estimate_round_rewards(self, reward, action, pscore, action_dist, estimated_rewards_by_reg_model, position) ==
    LET position_ == Get(position)
        iw == ImportanceWeight(action_dist, action, position_, pscore)
        indicator == switch_indicator(iw, self.lambda_)
        q_hat_factual == Factual(estimated_rewards_by_reg_model, action, position_)
        estimated_rewards == Average(estimated_rewards_by_reg_model, action_dist, position_)
    IN  AddCorrection(estimated_rewards, [t \in 1..Len(iw) |-> Mul(indicator[t], iw[t])],
                      reward, q_hat_factual)

\* faulty variant of Shrink: iw in place of iw ** 2
Shrink_linear(iw, lambda_) ==
    [t \in 1..Len(iw) |->
        IF Lt(lambda_, inf) THEN Div(Mul(lambda_, iw[t]), Add(iw[t], lambda_)) ELSE iw[t]]

\* iw_hat = (self.lambda_ * iw) / (iw ** 2 + self.lambda_) if self.lambda_ < np.inf else iw
Shrink(iw, lambda_) ==
    [t \in 1..Len(iw) |->
        IF Lt(lambda_, inf)
        THEN Div(Mul(lambda_, iw[t]), Add(Mul(iw[t], iw[t]), lambda_))
        ELSE iw[t]]

DoublyRobustWithShrinkage_estimate_round_rewards(self, reward, action, pscore, action_dist, estimated_rewards_by_reg_model, position) ==
    LET position_ == Get(position)
        iw == ImportanceWeight(action_dist, action, position_, pscore)
        iw_hat == Shrink(iw, self.lambda_)
        q_hat_factual == Factual(estimated_rewards_by_reg_model, action, position_)
        estimated_rewards == Average(estimated_rewards_by_reg_model, action_dist, position_)
    IN  AddCorrection(estimated_rewards, iw_hat, reward, q_hat_factual)

\* faulty variant of BalancedInverseProbabilityWeighting._estimate_round_rewards: the
\* normaliser is the mean of the weights before clipping
BalancedInverseProbabilityWeighting_raw_mean(self, reward, action, importance_sampling_ratio, action_dist, position) ==
    LET position_ == PositionOrZeros(position, action_dist)
        raw == [t \in 1..Len(action) |->
                  Mul(action_dist[t][action[t]][position_[t]], importance_sampling_ratio[t])]
        iw == [t \in 1..Len(action) |-> Minimum(raw[t], self.lambda_)]
    IN  [t \in 1..Len(reward) |-> Div(Mul(reward[t], iw[t]), Mean(raw))]

\* iw = action_dist[np.arange(n_rounds), action, position] * importance_sampling_ratio
BalancedWeight(action_dist, action, position, importance_sampling_ratio) ==
    [t \in 1..Len(action) |->
        Mul(action_dist[t][action[t]][position[t]], importance_sampling_ratio[t])]

BalancedInverseProbabilityWeighting_estimate_round_rewards(self, reward, action, importance_sampling_ratio, action_dist, position) ==
    LET position_ == PositionOrZeros(position, action_dist)
        iw == Clip(BalancedWeight(action_dist, action, position_, importance_sampling_ratio),
                   self.lambda_)
    IN  [t \in 1..Len(reward) |-> Div(Mul(reward[t], iw[t]), Mean(iw))]

(***************************************************************************)
(* construction: the dataclass fields and __post_init__                    *)
(***************************************************************************)
\* A constructor argument as a Python value: its type and its value.
Py(type, val) == [type |-> type, val |-> val]

\* faulty variant of check_scalar: no lower bound
check_scalar_no_min(x) == x.type \in {"int", "float", "bool"}

\* sklearn's check_scalar(x, target_type=(int, float), min_val=0.0) passes
\* (bool is a subclass of int; nan < 0.0 is False)
check_scalar(x) == x.type \in {"int", "float", "bool"} /\ ~Lt(x.val, Num(0))

\* isinstance(self.use_estimated_pscore, bool)
IsBool(x) == x.type = "bool"

\* the classes whose __post_init__ checks lambda_ and use_estimated_pscore
\* (SelfNormalized* inherit the method of their base class)
ChecksFlag == {"InverseProbabilityWeighting", "SelfNormalizedInverseProbabilityWeighting",
               "DoublyRobust", "SelfNormalizedDoublyRobust"}

\* the classes whose __post_init__ checks lambda_ only
ChecksLambdaOnly == {"SwitchDoublyRobust", "DoublyRobustWithShrinkage",
                     "BalancedInverseProbabilityWeighting"}

\* the classes without lambda_ and without __post_init__
NoHyperparameter == {"ReplayMethod", "DirectMethod"}

Classes == ChecksFlag \cup ChecksLambdaOnly \cup NoHyperparameter

\* the classes with the field use_estimated_pscore
HasFlag == Classes \ (NoHyperparameter \cup {"BalancedInverseProbabilityWeighting"})

\* __post_init__ returns without raising
post_init_ok(cls, lambda_, use_estimated_pscore) ==
    \/ cls \in NoHyperparameter
    \/ /\ cls \in ChecksLambdaOnly
       /\ check_scalar(lambda_)
       /\ ~IsNan(lambda_.val)
    \/ /\ cls \in ChecksFlag
       /\ check_scalar(lambda_)
       /\ ~IsNan(lambda_.val)
       /\ IsBool(use_estimated_pscore)

\* the default of the field estimator_name of cls
estimator_name(cls) ==
    CASE cls = "ReplayMethod" -> "rm"
      [] cls = "InverseProbabilityWeighting" -> "ipw"
      [] cls = "SelfNormalizedInverseProbabilityWeighting" -> "snipw"
      [] cls = "DirectMethod" -> "dm"
      [] cls = "DoublyRobust" -> "dr"
      [] cls = "SelfNormalizedDoublyRobust" -> "sndr"
      [] cls = "SwitchDoublyRobust" -> "switch-dr"
      [] cls = "DoublyRobustWithShrinkage" -> "dr-os"
      [] cls = "BalancedInverseProbabilityWeighting" -> "b-ipw"

\* the instance: its class and its fields
Instance(cls, lambda_, use_estimated_pscore) ==
    IF cls \in NoHyperparameter THEN [cls |-> cls, estimator_name |-> estimator_name(cls)]
    ELSE IF cls \in HasFlag
    THEN [cls |-> cls, lambda_ |-> lambda_.val,
          use_estimated_pscore |-> use_estimated_pscore.val,
          estimator_name |-> estimator_name(cls)]
    ELSE [cls |-> cls, lambda_ |-> lambda_.val, estimator_name |-> estimator_name(cls)]

NoInstance == [cls |-> "none"]

(***************************************************************************)
(* input validation (obp/utils.py)                                         *)
(***************************************************************************)
\* check_array(array, name, expected_dim) passes: the argument is an array
check_array(array) == array # None

\* every slice action_dist[t, :, p] is a probability distribution
IsDistribution(action_dist) ==
    \A t \in 1..Len(action_dist) :
        \A p \in DOMAIN action_dist[t][0] :
            /\ \A a \in DOMAIN action_dist[t] :
                  Leq(Num(0), action_dist[t][a][p]) /\ Leq(action_dist[t][a][p], Num(1))
            /\ SumOver([a \in DOMAIN action_dist[t] |-> action_dist[t][a][p]],
                       Cardinality(DOMAIN action_dist[t])) = Num(1)

\* check_ope_inputs passes; an argument that is not given is None
check_ope_inputs(action_dist, position, action, reward, pscore, estimated_rewards_by_reg_model, importance_sampling_ratio) ==
    /\ IsDistribution(action_dist)
    /\ position # None =>
          /\ Len(Get(position)) = Len(action_dist)
          /\ \A t \in 1..Len(action_dist) : Get(position)[t] \in DOMAIN action_dist[t][0]
    /\ action # None =>
          /\ Len(Get(action)) = Len(action_dist)
          /\ \A t \in 1..Len(action_dist) : Get(action)[t] \in DOMAIN action_dist[t]
    /\ reward # None => Len(Get(reward)) = Len(action_dist)
    /\ pscore # None =>
          /\ Len(Get(pscore)) = Len(action_dist)
          /\ \A t \in 1..Len(action_dist) : Lt(Num(0), Get(pscore)[t])
    /\ estimated_rewards_by_reg_model # None =>
          Len(Get(estimated_rewards_by_reg_model)) = Len(action_dist)
    /\ importance_sampling_ratio # None =>
          /\ Len(Get(importance_sampling_ratio)) = Len(action_dist)
          /\ \A t \in 1..Len(action_dist) : Lt(Num(0), Get(importance_sampling_ratio)[t])

(***************************************************************************)
(* the bootstrap confidence interval (obp/utils.py)                        *)
(***************************************************************************)
\* the index that the generator seeded with random_state draws for element k of
\* resample b of a vector of length n: a fixed function of the seed
Draw(random_state, b, k, n) == (((random_state + 1) * b + k * (random_state + b)) % n) + 1

\* faulty variant of check_random_state: the process-wide generator whatever the seed
check_random_state_global(random_state, np_random) == [seeded |-> FALSE, draws |-> np_random]

\* check_random_state(random_state): a fresh generator seeded with random_state, or for
\* None the process-wide generator, which will yield the indices np_random[b][k]
check_random_state(random_state, np_random) ==
    IF random_state = None THEN [seeded |-> FALSE, draws |-> np_random]
    ELSE [seeded |-> TRUE, seed |-> Get(random_state)]

\* the index that the generator random_ draws for element k of resample b
Choice(random_, b, k, n) ==
    IF random_.seeded THEN Draw(random_.seed, b, k, n) ELSE random_.draws[b][k]

\* resample b: n values of samples drawn with replacement
Resample(samples, random_, b) ==
    [k \in 1..Len(samples) |-> samples[Choice(random_, b, k, Len(samples))]]

RECURSIVE Insert(_, _)
\* v, sorted ascending, with x inserted
Insert(v, x) ==
    IF v = << >> THEN <<x>>
    ELSE IF Leq(v[Len(v)], x) THEN Append(v, x)
    ELSE Append(Insert(SubSeq(v, 1, Len(v) - 1), x), v[Len(v)])

RECURSIVE Sorted(_)
\* v sorted ascending
Sorted(v) == IF v = << >> THEN << >> ELSE Insert(Sorted(SubSeq(v, 1, Len(v) - 1)), v[Len(v)])

\* faulty variant of Percentile: the order statistics are read off v as it comes
Percentile_unsorted(v, q) ==
    LET h == Mul(Num(Len(v) - 1), q)
        i == h.n \div h.d
        frac == Sub(h, Num(i))
    IN  IF i + 1 >= Len(v) THEN v[Len(v)]
        ELSE Add(v[i + 1], Mul(frac, Sub(v[i + 2], v[i + 1])))

\* the q-th empirical quantile of v (0 <= q <= 1), interpolating linearly between the
\* two nearest order statistics; nan if v holds a nan
Percentile(v, q) ==
    IF \E k \in 1..Len(v) : IsNan(v[k]) THEN nan
    ELSE LET s == Sorted(v)
             h == Mul(Num(Len(v) - 1), q)
             i == h.n \div h.d
             frac == Sub(h, Num(i))
         IN  IF i + 1 >= Len(v) THEN s[Len(v)]
             ELSE Add(s[i + 1], Mul(frac, Sub(s[i + 2], s[i + 1])))

\* estimate_confidence_interval_by_bootstrap(samples, alpha, n_bootstrap_samples,
\* random_state): the mean of samples and the alpha/2 and 1 - alpha/2 percentiles of the
\* means of the resamples.  Equal samples give that value three times, whatever is
\* drawn.  Beyond MaxResamples resamples the result is left uninterpreted: the record
\* of the arguments that determine it.
estimate_confidence_interval_by_bootstrap(samples, alpha, n_bootstrap_samples, random_state, np_random) ==
    IF \A k \in 1..Len(samples) : samples[k] = samples[1] /\ ~IsNan(samples[1])
    THEN [mean |-> samples[1], lower |-> samples[1], upper |-> samples[1]]
    ELSE IF n_bootstrap_samples > MaxResamples
    THEN [samples |-> samples, alpha |-> alpha, n_bootstrap_samples |-> n_bootstrap_samples,
          random_state |-> random_state]
    ELSE LET random_ == check_random_state(random_state, np_random)
             boot_samples == [b \in 1..n_bootstrap_samples |->
                                 Mean(Resample(samples, random_, b))]
         IN  [mean |-> Mean(samples),
              lower |-> Percentile(boot_samples, Div(alpha, Num(2))),
              upper |-> Percentile(boot_samples, Sub(Num(1), Div(alpha, Num(2))))]

(***************************************************************************)
(* the public operations                                                   *)
(***************************************************************************)
\* self._estimate_round_rewards(...): the method of the instance's class, on the
\* arguments of its signature
estimate_round_rewards(self, a) ==
    CASE self.cls = "ReplayMethod" ->
           ReplayMethod_estimate_round_rewards(a.reward, a.action, a.action_dist, a.position)
      [] self.cls = "InverseProbabilityWeighting" ->
           InverseProbabilityWeighting_estimate_round_rewards(
               self, a.reward, a.action, a.pscore, a.action_dist, a.position)
      [] self.cls = "SelfNormalizedInverseProbabilityWeighting" ->
           SelfNormalizedInverseProbabilityWeighting_estimate_round_rewards(
               self, a.reward, a.action, a.pscore, a.action_dist, a.position)
      [] self.cls = "DirectMethod" ->
           DirectMethod_estimate_round_rewards(
               a.action_dist, a.estimated_rewards_by_reg_model, a.position)
      [] self.cls = "DoublyRobust" ->
           DoublyRobust_estimate_round_rewards(
               self, a.reward, a.action, a.pscore, a.action_dist,
               a.estimated_rewards_by_reg_model, a.position)
      [] self.cls = "SelfNormalizedDoublyRobust" ->
           SelfNormalizedDoublyRobust_estimate_round_rewards(
               self, a.reward, a.action, a.pscore, a.action_dist,
               a.estimated_rewards_by_reg_model, a.position)
      [] self.cls = "SwitchDoublyRobust" ->
           SwitchDoublyRobust_estimate_round_rewards(
               self, a.reward, a.action, a.pscore, a.action_dist,
               a.estimated_rewards_by_reg_model, a.position)
      [] self.cls = "DoublyRobustWithShrinkage" ->
           DoublyRobustWithShrinkage_estimate_round_rewards(
               self, a.reward, a.action, a.pscore, a.action_dist,
               a.estimated_rewards_by_reg_model, a.position)
      [] self.cls = "BalancedInverseProbabilityWeighting" ->
           BalancedInverseProbabilityWeighting_estimate_round_rewards(
               self, a.reward, a.action, a.importance_sampling_ratio, a.action_dist, a.position)

\* the outcome of a call: an exception, or the returned value
Raised == [raised |-> TRUE]

Returned(value) == [raised |-> FALSE, value |-> value]

\* the classes whose _estimate_round_rewards has no `if position is None` line
NoPositionDefault == {"SelfNormalizedDoublyRobust", "SwitchDoublyRobust",
                      "DoublyRobustWithShrinkage"}

\* a vector of n_rounds values as an array of shape (n_rounds, 1, 1)
Reshaped(v) == [t \in 1..Len(v) |-> << <<v[t]>> >>]

\* the outcome of self._estimate_round_rewards(**a).  In the classes of NoPositionDefault
\* a position of None is used as an index, where numpy reads it as a new axis:
\* x[np.arange(n_rounds), action, None] has shape (n_rounds, 1, len_list), iw (divided by
\* pscore of shape (n_rounds,)) has shape (n_rounds, 1, n_rounds) for len_list = 1, and
\* the in-place `estimated_rewards += ...` into shape (n_rounds, 1, 1) raises ValueError
\* unless n_rounds = 1, when the array of shape (1, 1, 1) is returned.
call_estimate_round_rewards(self, a) ==
    IF a.position # None \/ self.cls \notin NoPositionDefault
    THEN Returned(estimate_round_rewards(self, a))
    ELSE IF Len(a.reward) = 1
    THEN Returned(Reshaped(estimate_round_rewards(self,
             [a EXCEPT !.position = Some(Zeros(a.action_dist))])))
    ELSE Raised

\* faulty variant of SelectPscore: the other vector stands in for a missing one
SelectPscore_fallback(self, pscore, estimated_pscore) ==
    IF self.use_estimated_pscore
    THEN (IF estimated_pscore = None THEN pscore ELSE estimated_pscore)
    ELSE (IF pscore = None THEN estimated_pscore ELSE pscore)

\* faulty variant of SelectPscore: the flag is ignored
SelectPscore_ignoring_flag(self, pscore, estimated_pscore) == pscore

\* `pscore_`: estimated_pscore if self.use_estimated_pscore else pscore
SelectPscore(self, pscore, estimated_pscore) ==
    IF self.use_estimated_pscore THEN estimated_pscore ELSE pscore

\* the arguments estimate_policy_value hands to self._estimate_round_rewards
Delegated(a, pscore_) ==
    [a EXCEPT !.position = Some(PositionOrZeros(a.position, a.action_dist)),
              !.pscore = pscore_]

ReplayMethod_estimate_policy_value(self, a) ==
    IF ~check_ope_inputs(a.action_dist, a.position, Some(a.action), Some(a.reward),
                         None, None, None)
    THEN Raised
    ELSE Returned(Mean(estimate_round_rewards(self,
            [a EXCEPT !.position = Some(PositionOrZeros(a.position, a.action_dist))])))

\* also the method of SelfNormalizedInverseProbabilityWeighting, which inherits it
InverseProbabilityWeighting_estimate_policy_value(self, a) ==
    LET pscore_ == SelectPscore(self, a.pscore, a.estimated_pscore)
    IN  IF ~check_array(pscore_) THEN Raised
        ELSE IF ~check_ope_inputs(a.action_dist, a.position, Some(a.action), Some(a.reward),
                                  pscore_, None, None)
        THEN Raised
        ELSE Returned(Mean(estimate_round_rewards(self, Delegated(a, Get(pscore_)))))

DirectMethod_estimate_policy_value(self, a) ==
    IF ~check_ope_inputs(a.action_dist, a.position, None, None, None,
                         Some(a.estimated_rewards_by_reg_model), None)
    THEN Raised
    ELSE Returned(Mean(estimate_round_rewards(self,
            [a EXCEPT !.position = Some(PositionOrZeros(a.position, a.action_dist))])))

\* also the method of the three subclasses of DoublyRobust, which inherit it
DoublyRobust_estimate_policy_value(self, a) ==
    LET pscore_ == SelectPscore(self, a.pscore, a.estimated_pscore)
    IN  IF ~check_array(pscore_) THEN Raised
        ELSE IF ~check_ope_inputs(a.action_dist, a.position, Some(a.action), Some(a.reward),
                                  pscore_, Some(a.estimated_rewards_by_reg_model), None)
        THEN Raised
        ELSE Returned(Mean(estimate_round_rewards(self, Delegated(a, Get(pscore_)))))

\* estimate_policy_value of BalancedInverseProbabilityWeighting calls check_array on
\* each vector and does not call check_ope_inputs
BalancedInverseProbabilityWeighting_estimate_policy_value(self, a) ==
    IF ~check_array(Some(a.importance_sampling_ratio)) THEN Raised
    ELSE Returned(Mean(estimate_round_rewards(self,
            [a EXCEPT !.position = Some(PositionOrZeros(a.position, a.action_dist))])))

\* `alpha: float = 0.05` in the signature of every estimate_interval
alpha_default == Float(1, 20)

\* `n_bootstrap_samples: int = ...` in the signature of estimate_interval of cls
n_bootstrap_samples_default(cls) == IF cls = "ReplayMethod" THEN 100 ELSE 10000

\* the value estimate_interval returns for the round rewards of a.  a carries alpha,
\* n_bootstrap_samples and random_state, each None when the caller leaves it out, and
\* np_random, what the process-wide generator yields during the call
Interval(self, a) ==
    estimate_confidence_interval_by_bootstrap(
        estimate_round_rewards(self, a),
        IF a.alpha = None THEN alpha_default ELSE Get(a.alpha),
        IF a.n_bootstrap_samples = None
        THEN n_bootstrap_samples_default(self.cls) ELSE Get(a.n_bootstrap_samples),
        a.random_state, a.np_random)

ReplayMethod_estimate_interval(self, a) ==
    IF ~check_ope_inputs(a.action_dist, a.position, Some(a.action), Some(a.reward),
                         None, None, None)
    THEN Raised
    ELSE Returned(Interval(self,
            [a EXCEPT !.position = Some(PositionOrZeros(a.position, a.action_dist))]))

\* also the method of SelfNormalizedInverseProbabilityWeighting, which inherits it
InverseProbabilityWeighting_estimate_interval(self, a) ==
    LET pscore_ == SelectPscore(self, a.pscore, a.estimated_pscore)
    IN  IF ~check_array(pscore_) THEN Raised
        ELSE IF ~check_ope_inputs(a.action_dist, a.position, Some(a.action), Some(a.reward),
                                  pscore_, None, None)
        THEN Raised
        ELSE Returned(Interval(self, Delegated(a, Get(pscore_))))

DirectMethod_estimate_interval(self, a) ==
    IF ~check_ope_inputs(a.action_dist, a.position, None, None, None,
                         Some(a.estimated_rewards_by_reg_model), None)
    THEN Raised
    ELSE Returned(Interval(self,
            [a EXCEPT !.position = Some(PositionOrZeros(a.position, a.action_dist))]))

\* also the method of the three subclasses of DoublyRobust, which inherit it
DoublyRobust_estimate_interval(self, a) ==
    LET pscore_ == SelectPscore(self, a.pscore, a.estimated_pscore)
    IN  IF ~check_array(pscore_) THEN Raised
        ELSE IF ~check_ope_inputs(a.action_dist, a.position, Some(a.action), Some(a.reward),
                                  pscore_, Some(a.estimated_rewards_by_reg_model), None)
        THEN Raised
        ELSE Returned(Interval(self, Delegated(a, Get(pscore_))))

\* estimate_interval of BalancedInverseProbabilityWeighting does call check_ope_inputs
BalancedInverseProbabilityWeighting_estimate_interval(self, a) ==
    IF ~check_array(Some(a.importance_sampling_ratio)) THEN Raised
    ELSE IF ~check_ope_inputs(a.action_dist, a.position, Some(a.action), Some(a.reward),
                              None, None, Some(a.importance_sampling_ratio))
    THEN Raised
    ELSE Returned(Interval(self,
            [a EXCEPT !.position = Some(PositionOrZeros(a.position, a.action_dist))]))

\* faulty variant of Var: the unbiased sample variance (ddof=1)
Var_unbiased(v) ==
    LET m == Mean(v)
    IN  Div(Sum([t \in 1..Len(v) |-> Mul(Sub(v[t], m), Sub(v[t], m))]), Num(Len(v) - 1))

\* np.var(v): the population variance
Var(v) ==
    LET m == Mean(v)
    IN  Div(Sum([t \in 1..Len(v) |-> Mul(Sub(v[t], m), Sub(v[t], m))]), Num(Len(v)))

\* The two bias estimators of obp/ope/helper.py are left uninterpreted: the value of a
\* call is the record of the function called and of the arguments it is given.
estimate_bias_in_ope(reward, iw, iw_hat, q_hat) ==
    [fn |-> "estimate_bias_in_ope", reward |-> reward, iw |-> iw, iw_hat |-> iw_hat,
     q_hat |-> q_hat]

estimate_high_probability_upper_bound_bias(reward, iw, iw_hat, q_hat, delta) ==
    [fn |-> "estimate_high_probability_upper_bound_bias", reward |-> reward, iw |-> iw,
     iw_hat |-> iw_hat, q_hat |-> q_hat, delta |-> delta]

\* bias_term by use_bias_upper_bound
BiasTerm(use_bias_upper_bound, reward, iw, iw_hat, q_hat, delta) ==
    IF use_bias_upper_bound
    THEN estimate_high_probability_upper_bound_bias(reward, iw, iw_hat, q_hat, delta)
    ELSE estimate_bias_in_ope(reward, iw, iw_hat, q_hat)

\* estimated_mse_score = sample_variance + (bias_term ** 2): a computed variance plus
\* the square of the uninterpreted bias term
MseScore(sample_variance, bias_term) ==
    [sample_variance |-> sample_variance, squared |-> bias_term]

\* sample_variance = np.var(self._estimate_round_rewards(...)); sample_variance /= n_rounds
SampleVariance(self, a) ==
    Div(Var(estimate_round_rewards(self, a)), Num(Len(a.reward)))

\* also the method of SelfNormalizedInverseProbabilityWeighting, which inherits it
InverseProbabilityWeighting_estimate_mse_score(self, a) ==
    LET iw == ImportanceWeight(a.action_dist, a.action, Get(a.position), a.pscore)
    IN  MseScore(SampleVariance(self, a),
                 BiasTerm(a.use_bias_upper_bound, a.reward, iw, Clip(iw, self.lambda_),
                          None, a.delta))

\* also the method of SelfNormalizedDoublyRobust, which inherits it
DoublyRobust_estimate_mse_score(self, a) ==
    LET iw == ImportanceWeight(a.action_dist, a.action, Get(a.position), a.pscore)
        q_hat == Factual(a.estimated_rewards_by_reg_model, a.action, Get(a.position))
    IN  MseScore(SampleVariance(self, a),
                 BiasTerm(a.use_bias_upper_bound, a.reward, iw, Clip(iw, self.lambda_),
                          Some(q_hat), a.delta))

SwitchDoublyRobust_estimate_mse_score(self, a) ==
    LET iw == ImportanceWeight(a.action_dist, a.action, Get(a.position), a.pscore)
        indicator == switch_indicator(iw, self.lambda_)
        q_hat == Factual(a.estimated_rewards_by_reg_model, a.action, Get(a.position))
    IN  MseScore(SampleVariance(self, a),
                 BiasTerm(a.use_bias_upper_bound, a.reward, iw,
                          [t \in 1..Len(iw) |-> Mul(iw[t], indicator[t])],
                          Some(q_hat), a.delta))

\* the upper bound is called with the literal delta=0.05, not with the argument delta
DoublyRobustWithShrinkage_estimate_mse_score(self, a) ==
    LET iw == ImportanceWeight(a.action_dist, a.action, Get(a.position), a.pscore)
        q_hat == Factual(a.estimated_rewards_by_reg_model, a.action, Get(a.position))
    IN  MseScore(SampleVariance(self, a),
                 BiasTerm(a.use_bias_upper_bound, a.reward, iw, Shrink(iw, self.lambda_),
                          Some(q_hat), Float(1, 20)))

\* self._estimate_mse_score(...) by the class of the instance
estimate_mse_score(self, a) ==
    CASE self.cls \in {"InverseProbabilityWeighting",
                       "SelfNormalizedInverseProbabilityWeighting"} ->
           InverseProbabilityWeighting_estimate_mse_score(self, a)
      [] self.cls \in {"DoublyRobust", "SelfNormalizedDoublyRobust"} ->
           DoublyRobust_estimate_mse_score(self, a)
      [] self.cls = "SwitchDoublyRobust" -> SwitchDoublyRobust_estimate_mse_score(self, a)
      [] self.cls = "DoublyRobustWithShrinkage" ->
           DoublyRobustWithShrinkage_estimate_mse_score(self, a)

\* faulty variant of AfterCall: the method stores the threshold it applied, or its own
\* name, on the instance
AfterCall_writing(self, a) ==
    [self |-> IF "lambda_" \in DOMAIN self THEN [self EXCEPT !.lambda_ = Num(1)]
              ELSE [self EXCEPT !.estimator_name = "called"],
     args |-> a]

\* the instance and the caller's arrays after a method has run on the arguments a: the
\* methods read self.lambda_ and self.use_estimated_pscore and assign to no attribute;
\* `position = np.zeros(...)` rebinds a local name, and `estimated_rewards += ...` and
\* `sample_variance /= n_rounds` update values that the method itself created
AfterCall(self, a) == [self |-> self, args |-> a]

\* self.estimate_interval(...) by the class of the instance
estimate_interval(self, a) ==
    CASE self.cls = "ReplayMethod" -> ReplayMethod_estimate_interval(self, a)
      [] self.cls \in {"InverseProbabilityWeighting",
                       "SelfNormalizedInverseProbabilityWeighting"} ->
           InverseProbabilityWeighting_estimate_interval(self, a)
      [] self.cls = "DirectMethod" -> DirectMethod_estimate_interval(self, a)
      [] self.cls \in {"DoublyRobust", "SelfNormalizedDoublyRobust", "SwitchDoublyRobust",
                       "DoublyRobustWithShrinkage"} ->
           DoublyRobust_estimate_interval(self, a)
      [] self.cls = "BalancedInverseProbabilityWeighting" ->
           BalancedInverseProbabilityWeighting_estimate_interval(self, a)

\* self.estimate_policy_value(...) by the class of the instance
estimate_policy_value(self, a) ==
    CASE self.cls = "ReplayMethod" -> ReplayMethod_estimate_policy_value(self, a)
      [] self.cls \in {"InverseProbabilityWeighting",
                       "SelfNormalizedInverseProbabilityWeighting"} ->
           InverseProbabilityWeighting_estimate_policy_value(self, a)
      [] self.cls = "DirectMethod" -> DirectMethod_estimate_policy_value(self, a)
      [] self.cls \in {"DoublyRobust", "SelfNormalizedDoublyRobust", "SwitchDoublyRobust",
                       "DoublyRobustWithShrinkage"} ->
           DoublyRobust_estimate_policy_value(self, a)
      [] self.cls = "BalancedInverseProbabilityWeighting" ->
           BalancedInverseProbabilityWeighting_estimate_policy_value(self, a)

(***************************************************************************)
(* the inputs of the calls: batches of logged bandit feedback with two     *)
(* actions and one position.  A round is drawn from RoundInputs; the batch *)
(* of the concrete IPW scenario (three rounds) is always among the batches.*)
(***************************************************************************)
Actions == {0, 1}

half == Float(1, 2)

\* action_dist[t, :, 0]: a deterministic and a uniform evaluation policy
Deterministic == (0 :> Num(1)) @@ (1 :> Num(0))

Uniform == (0 :> half) @@ (1 :> half)

\* estimated_rewards_by_reg_model[t, :, 0]: the model predicts 1 for action 0 and 0
\* for action 1
ModelSlice == (0 :> Num(1)) @@ (1 :> Num(0))

RoundInputs ==
    [reward : {Num(0), Num(1)}, action : Actions, pscore : {half, Num(1)},
     pi : {Deterministic, Uniform}]

\* the rounds of the calls of estimate_policy_value
RoundInputsDeterministic == {r \in RoundInputs : r.pi = Deterministic}

\* T=3, reward=[1,0,1], action=[0,1,0], pscore=[0.5,0.5,0.5], one-hot action_dist
Scenario ==
    << [reward |-> Num(1), action |-> 0, pscore |-> half, pi |-> (0 :> Num(1)) @@ (1 :> Num(0))],
       [reward |-> Num(0), action |-> 1, pscore |-> half, pi |-> (0 :> Num(0)) @@ (1 :> Num(1))],
       [reward |-> Num(1), action |-> 0, pscore |-> half, pi |-> (0 :> Num(1)) @@ (1 :> Num(0))] >>

Batches(rounds) == UNION {[1..T -> rounds] : T \in 1..MaxRounds} \cup {Scenario}

\* the arrays of a batch b
Vector(b, field) == [t \in 1..Len(b) |-> b[t][field]]

\* action_dist
ActionDist(b) == [t \in 1..Len(b) |-> [a \in Actions |-> [p \in {0} |-> b[t].pi[a]]]]

\* estimated_rewards_by_reg_model
ModelRewards(b) == [t \in 1..Len(b) |-> [a \in Actions |-> [p \in {0} |-> ModelSlice[a]]]]

\* the estimated propensity of a round differs from the logged one
EstimatedPscore(b) == [t \in 1..Len(b) |-> IF b[t].pscore = half THEN Num(1) ELSE half]

\* the density ratio of a round: 1 or 2
SamplingRatio(b) == [t \in 1..Len(b) |-> Div(Num(1), b[t].pscore)]

\* the keyword arguments of a call of _estimate_round_rewards on cls
RoundRewardsArgs(cls, b, position) ==
    CASE cls = "ReplayMethod" ->
           [reward |-> Vector(b, "reward"), action |-> Vector(b, "action"),
            action_dist |-> ActionDist(b), position |-> position]
      [] cls \in {"InverseProbabilityWeighting", "SelfNormalizedInverseProbabilityWeighting"} ->
           [reward |-> Vector(b, "reward"), action |-> Vector(b, "action"),
            pscore |-> Vector(b, "pscore"),
            action_dist |-> ActionDist(b), position |-> position]
      [] cls = "BalancedInverseProbabilityWeighting" ->
           [reward |-> Vector(b, "reward"), action |-> Vector(b, "action"),
            importance_sampling_ratio |-> SamplingRatio(b),
            action_dist |-> ActionDist(b), position |-> position]
      \* DirectMethod takes **kwargs: the logged vectors are passed and ignored
      [] OTHER ->
           [reward |-> Vector(b, "reward"), action |-> Vector(b, "action"),
            pscore |-> Vector(b, "pscore"), action_dist |-> ActionDist(b),
            estimated_rewards_by_reg_model |-> ModelRewards(b), position |-> position]

\* the keyword arguments of a call of estimate_policy_value on cls
PolicyValueArgs(cls, b, position) ==
    IF cls \in HasFlag
    THEN [RoundRewardsArgs(cls, b, position) EXCEPT !.pscore = Some(Vector(b, "pscore"))]
         @@ [estimated_pscore |-> Some(EstimatedPscore(b))]
    ELSE RoundRewardsArgs(cls, b, position)

\* the rounds of the calls that are made with inputs that do not pass the validation
CheckedRounds ==
    {[reward |-> Num(1), action |-> 0, pscore |-> half, pi |-> Deterministic],
     [reward |-> Num(0), action |-> 1, pscore |-> Num(1), pi |-> Uniform]}

\* which of pscore and estimated_pscore a call supplies
Supplied == {"both", "pscore", "estimated_pscore", "neither"}

\* what is wrong with the arrays of a call
Defects == {"none", "action_dist", "propensity"}

\* a slice action_dist[t, :, 0] that sums to 3/4
NotDistribution == (0 :> half) @@ (1 :> Float(1, 4))

\* the vector v with its first element replaced by x
WithFirst(v, x) == [v EXCEPT ![1] = x]

\* the keyword arguments of a call of estimate_policy_value on cls: those of
\* PolicyValueArgs, of which the first round's action_dist does not sum to 1
\* (defect "action_dist") or the first round's propensity is 0, its sampling ratio -1
\* (defect "propensity"), and of which pscore or estimated_pscore may be None
CheckedArgs(cls, b, position, supplied, defect) ==
    LET a == PolicyValueArgs(cls, b, position)
        action_dist == IF defect = "action_dist"
                       THEN WithFirst(a.action_dist,
                                      [x \in Actions |-> [p \in {0} |-> NotDistribution[x]]])
                       ELSE a.action_dist
        a1 == [a EXCEPT !.action_dist = action_dist]
    IN  IF cls \in HasFlag
        THEN LET pscore == IF defect = "propensity"
                           THEN WithFirst(Get(a.pscore), Num(0)) ELSE Get(a.pscore)
                 estimated_pscore == IF defect = "propensity"
                                     THEN WithFirst(Get(a.estimated_pscore), Num(0))
                                     ELSE Get(a.estimated_pscore)
             IN  [a1 EXCEPT
                    !.pscore = IF supplied \in {"both", "pscore"}
                               THEN Some(pscore) ELSE None,
                    !.estimated_pscore = IF supplied \in {"both", "estimated_pscore"}
                                         THEN Some(estimated_pscore) ELSE None]
        ELSE IF cls = "BalancedInverseProbabilityWeighting" /\ defect = "propensity"
        THEN [a1 EXCEPT !.importance_sampling_ratio =
                            WithFirst(a.importance_sampling_ratio, Num(-1))]
        ELSE a1

\* alpha, n_bootstrap_samples and random_state of a call of estimate_interval
IntervalParams ==
    [alpha : {Some(Float(1, 20))}, n_bootstrap_samples : {Some(2)},
     random_state : {Some(0), Some(1)}, np_random : {None}]

\* the rounds of the calls of _estimate_mse_score: raw weights 2, 1/2, 1 and 1
TunedRounds ==
    {[reward |-> Num(1), action |-> 0, pscore |-> half, pi |-> Deterministic],
     [reward |-> Num(0), action |-> 1, pscore |-> Num(1), pi |-> Uniform],
     [reward |-> Num(1), action |-> 1, pscore |-> half, pi |-> Uniform],
     [reward |-> Num(0), action |-> 0, pscore |-> Num(1), pi |-> Deterministic]}

\* use_bias_upper_bound and delta of a call of _estimate_mse_score
TuningParams == [use_bias_upper_bound : BOOLEAN, delta : {Float(1, 20), Float(1, 10)}]

\* the outcome of the method op_ of self on the arguments a
Call(op_, self, a) ==
    CASE op_ = "_estimate_round_rewards" -> call_estimate_round_rewards(self, a)
      [] op_ = "estimate_policy_value" -> estimate_policy_value(self, a)
      [] op_ = "estimate_interval" -> estimate_interval(self, a)
      [] op_ = "_estimate_mse_score" -> Returned(estimate_mse_score(self, a))

\* the batches of two rounds whose round rewards are resampled
ResampledBatches == [1..2 -> CheckedRounds]

\* what the process-wide generator can yield for n resamples of T values
GlobalDraws(n, T) == [1..n -> [1..T -> 1..T]]

\* the values of alpha of the calls of estimate_interval, None when it is left out
Alphas == {None, Some(Float(1, 20)), Some(half)}

\* the values of n_bootstrap_samples of the calls, None when it is left out
ResampleCounts == {None, Some(10000)} \cup {Some(n) : n \in 1..MaxResamples}

\* the resamples of a call that are drawn one by one: all of them up to MaxResamples
Drawn(n_bootstrap_samples) ==
    IF n_bootstrap_samples = None THEN 1
    ELSE IF Get(n_bootstrap_samples) > MaxResamples THEN 1 ELSE Get(n_bootstrap_samples)

TakesModel == {"DirectMethod", "DoublyRobust", "SelfNormalizedDoublyRobust",
               "SwitchDoublyRobust", "DoublyRobustWithShrinkage"}

\* constructor arguments
LambdaArgs == {Py("float", Num(0)), Py("int", Num(1)), Py("float", inf),
               Py("float", Num(-1)), Py("float", nan), Py("str", nan)}

FlagArgs == {Py("bool", FALSE), Py("bool", TRUE)}

\* values of use_estimated_pscore that are not bool: 1, "yes" and None, each with its
\* truth value
NonBoolFlagArgs == {Py("int", TRUE), Py("str", TRUE), Py("NoneType", FALSE)}

(***************************************************************************)
(* the state machine                                                       *)
(***************************************************************************)
Init ==
    /\ estimator = NoInstance
    /\ pc = "new"
    /\ op = "none"
    /\ args = None
    /\ ret = None
    /\ kept = None
    /\ other = None

\* cls(lambda_=..., use_estimated_pscore=...): the dataclass __init__ and __post_init__
Construct(cls, lambda_, use_estimated_pscore) ==
    /\ pc = "new"
    /\ op' = "__init__"
    /\ args' = [cls |-> cls, lambda_ |-> lambda_, use_estimated_pscore |-> use_estimated_pscore]
    /\ IF post_init_ok(cls, lambda_, use_estimated_pscore)
       THEN estimator' = Instance(cls, lambda_, use_estimated_pscore) /\ pc' = "constructed"
       ELSE estimator' = NoInstance /\ pc' = "failed"
    /\ UNCHANGED <<ret, kept, other>>

\* estimator._estimate_round_rewards(**a)
CallRoundRewards(a) ==
    /\ pc = "ready"
    /\ op' = "_estimate_round_rewards"
    /\ args' = a
    /\ ret' = estimate_round_rewards(estimator, a)
    /\ pc' = "returned"
    /\ UNCHANGED <<estimator, kept, other>>

\* estimator.estimate_policy_value(**a)
CallPolicyValue(a) ==
    /\ pc = "ready"
    /\ op' = "estimate_policy_value"
    /\ args' = a
    /\ LET r == estimate_policy_value(estimator, a)
       IN  IF r.raised THEN ret' = None /\ pc' = "raised"
           ELSE ret' = r.value /\ pc' = "returned"
    /\ UNCHANGED <<estimator, kept, other>>

\* estimator._estimate_round_rewards(**a), where a may leave position out
CallRoundRewardsDirectly(a) ==
    /\ pc = "ready"
    /\ op' = "_estimate_round_rewards"
    /\ args' = a
    /\ LET r == call_estimate_round_rewards(estimator, a)
       IN  IF r.raised THEN ret' = None /\ pc' = "raised"
           ELSE ret' = r.value /\ pc' = "returned"
    /\ UNCHANGED <<estimator, kept, other>>

\* estimator.estimate_interval(**a)
CallInterval(a) ==
    /\ pc = "ready"
    /\ op' = "estimate_interval"
    /\ args' = a
    /\ LET r == estimate_interval(estimator, a)
       IN  IF r.raised THEN ret' = None /\ pc' = "raised"
           ELSE ret' = r.value /\ pc' = "returned"
    /\ UNCHANGED <<estimator, kept, other>>

\* estimator._estimate_mse_score(**a)
CallMseScore(a) ==
    /\ pc = "ready"
    /\ op' = "_estimate_mse_score"
    /\ args' = a
    /\ ret' = estimate_mse_score(estimator, a)
    /\ pc' = "returned"
    /\ UNCHANGED <<estimator, kept, other>>

\* the caller takes the instance or the result; the instance is ready for the next call
Return ==
    /\ pc \in {"constructed", "returned", "raised"}
    /\ pc' = "ready"
    /\ op' = "none"
    /\ args' = None
    /\ ret' = None
    /\ UNCHANGED <<estimator, kept, other>>

WeightClasses == Classes \ TakesModel

\* construction of an estimator that takes no regression model
ConstructWeight ==
    \E cls \in WeightClasses, lambda_ \in LambdaArgs : Construct(cls, lambda_, Py("bool", FALSE))

\* construction of an estimator that takes estimated_rewards_by_reg_model
ConstructModel ==
    \E cls \in TakesModel, lambda_ \in LambdaArgs : Construct(cls, lambda_, Py("bool", FALSE))

ConstructReplay == Construct("ReplayMethod", Py("float", inf), Py("bool", FALSE))

ConstructAny ==
    \E cls \in Classes, lambda_ \in LambdaArgs, flag \in FlagArgs : Construct(cls, lambda_, flag)

RoundRewards ==
    \E b \in Batches(RoundInputs) :
        CallRoundRewards(RoundRewardsArgs(estimator.cls, b, Some([t \in 1..Len(b) |-> 0])))

PolicyValue ==
    \E b \in Batches(RoundInputsDeterministic) :
        \E position \in {None, Some([t \in 1..Len(b) |-> 0])} :
            CallPolicyValue(PolicyValueArgs(estimator.cls, b, position))

\* construction of one of the two estimators that clip their weights at lambda_
ConstructClipping ==
    \E cls \in {"InverseProbabilityWeighting", "DoublyRobust"}, lambda_ \in LambdaArgs :
        Construct(cls, lambda_, Py("bool", FALSE))

\* construction of an estimator that has lambda_, with any value of its fields
\* (BalancedInverseProbabilityWeighting has no field use_estimated_pscore)
ConstructWithFields ==
    \/ \E cls \in HasFlag, lambda_ \in LambdaArgs, flag \in FlagArgs \cup NonBoolFlagArgs :
          Construct(cls, lambda_, flag)
    \/ \E lambda_ \in LambdaArgs :
          Construct("BalancedInverseProbabilityWeighting", lambda_, Py("bool", FALSE))

\* construction of any estimator with its default lambda_ = +inf
ConstructDefault ==
    \E cls \in Classes, flag \in FlagArgs : Construct(cls, Py("float", inf), flag)

\* construction of an estimator that has _estimate_mse_score
ConstructTuned ==
    \E cls \in HasFlag, lambda_ \in LambdaArgs : Construct(cls, lambda_, Py("bool", FALSE))

\* a call of _estimate_mse_score in the tuning of lambda_
MseScoreTuned ==
    \E b \in Batches(TunedRounds), params \in TuningParams :
        CallMseScore(RoundRewardsArgs(estimator.cls, b, Some([t \in 1..Len(b) |-> 0]))
                     @@ params)

\* construction of any estimator with the default value of every field
ConstructEach == \E cls \in Classes : Construct(cls, Py("float", inf), Py("bool", FALSE))

\* a direct call of _estimate_round_rewards with position given or left out
RoundRewardsDirectly ==
    \E b \in Batches(CheckedRounds) :
        \E position \in {None, Some([t \in 1..Len(b) |-> 0])} :
            CallRoundRewardsDirectly(RoundRewardsArgs(estimator.cls, b, position))

\* a call of estimate_policy_value with arguments that may fail the validation
PolicyValueChecked ==
    \E b \in Batches(CheckedRounds) :
        \E position \in {None, Some([t \in 1..Len(b) |-> 0])} :
            \E supplied \in Supplied, defect \in Defects :
                /\ (estimator.cls \notin HasFlag => supplied = "both")
                /\ CallPolicyValue(CheckedArgs(estimator.cls, b, position, supplied, defect))

\* a call of estimate_interval with arguments that may fail the validation
IntervalChecked ==
    \E b \in Batches(CheckedRounds) :
        \E position \in {None, Some([t \in 1..Len(b) |-> 0])} :
            \E supplied \in Supplied, defect \in Defects, params \in IntervalParams :
                /\ (estimator.cls \notin HasFlag => supplied = "both")
                /\ CallInterval(
                       CheckedArgs(estimator.cls, b, position, supplied, defect) @@ params)

\* a call of estimate_interval with valid arguments, seeded or not, with alpha and
\* n_bootstrap_samples given or left out
IntervalResampled ==
    \E b \in ResampledBatches, alpha \in Alphas, n_bootstrap_samples \in ResampleCounts :
        \E random_state \in {None, Some(0)} :
            \E np_random \in GlobalDraws(Drawn(n_bootstrap_samples), 2) :
                CallInterval(
                    CheckedArgs(estimator.cls, b, Some(<<0, 0>>), "both", "none")
                    @@ [alpha |-> alpha, n_bootstrap_samples |-> n_bootstrap_samples,
                        random_state |-> random_state, np_random |-> np_random])

\* a call of estimate_interval with MaxResamples resamples, seeded or not, whatever the
\* process-wide generator is about to yield
IntervalSeeded ==
    \E b \in {x \in ResampledBatches : x[1] # x[2]} :
        \E random_state \in {None, Some(0), Some(1)} :
            \E np_random \in GlobalDraws(MaxResamples, 2) :
                CallInterval(
                    CheckedArgs(estimator.cls, b, Some(<<0, 0>>), "both", "none")
                    @@ [alpha |-> Some(Float(1, 20)),
                        n_bootstrap_samples |-> Some(MaxResamples),
                        random_state |-> random_state, np_random |-> np_random])

\* a call of estimate_policy_value with valid arguments
PolicyValueResampled ==
    \E b \in ResampledBatches :
        CallPolicyValue(CheckedArgs(estimator.cls, b, None, "both", "none"))

\* the calls that the second thread makes on an instance of cls
OtherCalls(cls) ==
    {[op |-> "estimate_policy_value", args |-> CheckedArgs(cls, b, None, "both", "none")] :
        b \in ResampledBatches}
    \cup (IF cls \in HasFlag
          THEN {[op |-> "_estimate_mse_score",
                 args |-> RoundRewardsArgs(cls, b, Some(<<0, 0>>))
                          @@ [use_bias_upper_bound |-> TRUE, delta |-> Float(1, 20)]] :
                   b \in ResampledBatches}
          ELSE {})

\* the calls that the first thread makes on an instance of cls: the four methods, the
\* confidence interval seeded or not
SharedCalls(cls) ==
    OtherCalls(cls)
    \cup {[op |-> "_estimate_round_rewards",
           args |-> RoundRewardsArgs(cls, b, Some(<<0, 0>>))] : b \in ResampledBatches}
    \cup {[op |-> "estimate_interval",
           args |-> CheckedArgs(cls, b, None, "both", "none")
                    @@ [alpha |-> None, n_bootstrap_samples |-> Some(1),
                        random_state |-> c[1], np_random |-> c[2]]] :
             b \in ResampledBatches, c \in {None, Some(0)} \X GlobalDraws(1, 2)}

\* a call by the first thread on the shared instance; the caller keeps what the
\* instance and the arrays were when it made the call
CallShared ==
    \E c \in SharedCalls(estimator.cls) :
        /\ pc = "ready"
        /\ op' = c.op
        /\ kept' = [args |-> c.args, ret |-> estimator]
        /\ estimator' = AfterCall(estimator, c.args).self
        /\ args' = AfterCall(estimator, c.args).args
        /\ LET r == Call(c.op, estimator, c.args)
           IN  IF r.raised THEN ret' = None /\ pc' = "raised"
               ELSE ret' = r.value /\ pc' = "returned"
        /\ UNCHANGED other

\* the first thread takes the instance or the result
ReturnShared ==
    /\ pc \in {"constructed", "returned", "raised"}
    /\ pc' = "ready"
    /\ op' = "none"
    /\ args' = None
    /\ ret' = None
    /\ kept' = None
    /\ UNCHANGED <<estimator, other>>

\* a second thread enters a method of the shared instance
OtherBegin ==
    \E c \in OtherCalls(estimator.cls) :
        /\ pc \in {"ready", "returned", "raised"}
        /\ other = None
        /\ other' = [pc |-> "running", op |-> c.op, args |-> c.args, self |-> estimator]
        /\ UNCHANGED <<estimator, pc, op, args, ret, kept>>

\* the method of the second thread runs to its end, on the instance as it is now
OtherEnd ==
    /\ other # None
    /\ other.pc = "running"
    /\ estimator' = AfterCall(estimator, other.args).self
    /\ other' = [pc |-> "done", op |-> other.op, args |-> other.args, self |-> other.self,
                 after |-> AfterCall(estimator, other.args).args,
                 ret |-> Call(other.op, estimator, other.args)]
    /\ UNCHANGED <<pc, op, args, ret, kept>>

\* the second thread takes its result
OtherReturn ==
    /\ other # None
    /\ other.pc = "done"
    /\ other' = None
    /\ UNCHANGED <<estimator, pc, op, args, ret, kept>>

\* what the caller of estimate_interval passed: the arguments without np_random
Passed(a) == [f \in DOMAIN a \ {"np_random"} |-> a[f]]

\* the caller keeps the arguments and the result of a seeded call of estimate_interval
\* for a later comparison
ReturnKeeping ==
    /\ pc = "returned"
    /\ op = "estimate_interval"
    /\ args.random_state # None
    /\ kept' = [args |-> Passed(args), ret |-> ret]
    /\ pc' = "ready"
    /\ op' = "none"
    /\ args' = None
    /\ ret' = None
    /\ UNCHANGED <<estimator, other>>

Next ==
    \/ ConstructAny
    \/ ConstructWithFields
    \/ ConstructEach
    \/ ConstructTuned
    \/ MseScoreTuned
    \/ RoundRewards
    \/ RoundRewardsDirectly
    \/ PolicyValue
    \/ PolicyValueChecked
    \/ IntervalChecked
    \/ IntervalResampled
    \/ IntervalSeeded
    \/ PolicyValueResampled
    \/ ReturnKeeping
    \/ CallShared
    \/ ReturnShared
    \/ OtherBegin
    \/ OtherEnd
    \/ OtherReturn
    \/ Return

Spec == Init /\ [][Next]_vars

\* the estimators without a regression model, called for their round rewards
SpecIPW == Init /\ [][ConstructWeight \/ RoundRewards \/ Return]_vars

\* the estimators with a regression model, called for their round rewards
SpecDR == Init /\ [][ConstructModel \/ RoundRewards \/ Return]_vars

\* the Replay Method, called for its round rewards and for its policy value
SpecRM == Init /\ [][ConstructReplay \/ RoundRewards \/ PolicyValue \/ Return]_vars

\* every estimator, called for its policy value
SpecPV == Init /\ [][ConstructAny \/ PolicyValue \/ Return]_vars

\* the two clipping estimators, called for their round rewards
SpecClip == Init /\ [][ConstructClipping \/ RoundRewards \/ Return]_vars

\* the estimators with _estimate_mse_score, called for the score of their lambda_
SpecMse == Init /\ [][ConstructTuned \/ MseScoreTuned \/ Return]_vars

\* every estimator, shared by two threads that call its methods
SpecShared ==
    Init /\ [][ConstructEach \/ CallShared \/ ReturnShared
                 \/ OtherBegin \/ OtherEnd \/ OtherReturn]_vars

\* every estimator, called for a confidence interval
SpecInterval == Init /\ [][ConstructEach \/ IntervalResampled \/ Return]_vars

\* every estimator, called for seeded and unseeded confidence intervals and for its
\* policy value, by a caller that keeps a seeded result
SpecRepro ==
    Init /\ [][ConstructDefault \/ IntervalSeeded \/ PolicyValueResampled
                 \/ ReturnKeeping \/ Return]_vars

\* the constructors of the estimators that have lambda_
SpecInit == Init /\ [][ConstructWithFields]_vars

\* every estimator, called directly and through its two public operations with
\* arguments that may be left out or may fail the validation
SpecCalls ==
    Init /\ [][ConstructDefault \/ RoundRewardsDirectly \/ PolicyValueChecked
                  \/ IntervalChecked \/ Return]_vars

(***************************************************************************)
(* properties                                                              *)
(***************************************************************************)
\* a call of _estimate_round_rewards on an instance of cls has returned
ReturnedRoundRewards(cls) ==
    pc = "returned" /\ op = "_estimate_round_rewards" /\ estimator.cls = cls

\* the rounds of the call
Rounds == 1..Len(args.action_dist)

\* the evaluation probability of the logged action of round t at its position
PiLogged(t) == args.action_dist[t][args.action[t]][Get(args.position)[t]]

\* the raw importance weight w_t of round t
W(t) == Div(PiLogged(t), args.pscore[t])

\* the regression model's estimate for the logged action of round t
QLogged(t) == args.estimated_rewards_by_reg_model[t][args.action[t]][Get(args.position)[t]]

\* DM_t: sum over the actions of action_dist * estimated_rewards_by_reg_model at the
\* position of round t
DM(t) ==
    LET p == Get(args.position)[t]
    IN  Add(Mul(args.action_dist[t][0][p], args.estimated_rewards_by_reg_model[t][0][p]),
            Mul(args.action_dist[t][1][p], args.estimated_rewards_by_reg_model[t][1][p]))

\* C1: estimate_policy_value of every estimator returns, on every valid input, the mean
\* of the round rewards of the same estimator on the same inputs, with the propensity
\* vector chosen by use_estimated_pscore and an absent position replaced by zeros.
C1_PolicyValueIsMean ==
    (op = "estimate_policy_value") =>
        /\ pc = "returned"
        /\ LET zeros == [t \in Rounds |-> 0]
               position == IF args.position = None THEN Some(zeros) ELSE args.position
               a == IF estimator.cls \in HasFlag
                    THEN [args EXCEPT !.position = position,
                                      !.pscore = IF estimator.use_estimated_pscore
                                                 THEN Get(args.estimated_pscore)
                                                 ELSE Get(args.pscore)]
                    ELSE [args EXCEPT !.position = position]
               round_rewards == estimate_round_rewards(estimator, a)
           IN  ret = Div(Sum(round_rewards), Num(Len(round_rewards)))

C1_Witness ==
    /\ pc = "returned"
    /\ op = "estimate_policy_value"
    /\ estimator.cls = "DoublyRobust"
    /\ estimator.use_estimated_pscore
    /\ estimator.lambda_ = Num(1)
    /\ args.position = None
    /\ Len(args.reward) = 2
    /\ IsFinite(ret)
    /\ ret # Num(0)

\* C2: the round rewards of DoublyRobustWithShrinkage with lambda_ = 0 are those of
\* DirectMethod on the same action_dist, estimated_rewards_by_reg_model and position.
C2_ShrinkageZeroIsDirectMethod ==
    (ReturnedRoundRewards("DoublyRobustWithShrinkage") /\ estimator.lambda_ = Num(0)) =>
        ret = DirectMethod_estimate_round_rewards(
                  args.action_dist, args.estimated_rewards_by_reg_model, args.position)

\* C3: the round rewards of SwitchDoublyRobust with lambda_ = 0 are those of DirectMethod
\* on the same action_dist, estimated_rewards_by_reg_model and position.
C3_SwitchZeroIsDirectMethod ==
    (ReturnedRoundRewards("SwitchDoublyRobust") /\ estimator.lambda_ = Num(0)) =>
        ret = DirectMethod_estimate_round_rewards(
                  args.action_dist, args.estimated_rewards_by_reg_model, args.position)

\* a round of weight 0 passes the indicator with a nonzero residual, another has a
\* positive weight
C3_Witness ==
    /\ ReturnedRoundRewards("SwitchDoublyRobust")
    /\ estimator.lambda_ = Num(0)
    /\ \E t \in Rounds : W(t) = Num(0) /\ args.reward[t] # QLogged(t)
    /\ \E t \in Rounds : Lt(Num(0), W(t)) /\ args.reward[t] # QLogged(t)

\* C4: the round rewards of SwitchDoublyRobust with lambda_ = +inf are those of
\* DoublyRobust with lambda_ = +inf on the same inputs.
C4_SwitchInfIsDoublyRobust ==
    (ReturnedRoundRewards("SwitchDoublyRobust") /\ estimator.lambda_ = inf) =>
        ret = DoublyRobust_estimate_round_rewards(
                  [cls |-> "DoublyRobust", lambda_ |-> inf, use_estimated_pscore |-> FALSE],
                  args.reward, args.action, args.pscore, args.action_dist,
                  args.estimated_rewards_by_reg_model, args.position)

C4_Witness ==
    /\ ReturnedRoundRewards("SwitchDoublyRobust")
    /\ estimator.lambda_ = inf
    /\ \E t \in Rounds : W(t) = Num(2) /\ args.reward[t] # QLogged(t)

\* C5: the Switch-DR round reward is DM_t + 1[w_t <= lambda_] * w_t * (reward_t - q_hat_t)
\* with the raw weight: a round with w_t = lambda_ keeps its correction, a round with
\* w_t > lambda_ gets the DM term alone.
C5_SwitchFormula ==
    ReturnedRoundRewards("SwitchDoublyRobust") =>
        \A t \in Rounds :
            ret[t] = IF Leq(W(t), estimator.lambda_)
                     THEN Add(DM(t), Mul(W(t), Sub(args.reward[t], QLogged(t))))
                     ELSE DM(t)

\* one round sits on the threshold and another above it, both with a nonzero residual
C5_Witness ==
    /\ ReturnedRoundRewards("SwitchDoublyRobust")
    /\ estimator.lambda_ = Num(1)
    /\ \E t \in Rounds : W(t) = Num(1) /\ args.reward[t] # QLogged(t) /\ ret[t] # DM(t)
    /\ \E t \in Rounds : W(t) = Num(2) /\ args.reward[t] # QLogged(t) /\ ret[t] = DM(t)

\* C6: the DRos round reward is DM_t + w_o * (reward_t - q_hat_t) with
\* w_o = lambda_ * w_t / (w_t^2 + lambda_) for a finite lambda_ and w_o = w_t for
\* lambda_ = +inf, where the round rewards are those of DoublyRobust with lambda_ = +inf.
C6_ShrinkageFormula ==
    ReturnedRoundRewards("DoublyRobustWithShrinkage") =>
        /\ \A t \in Rounds :
              LET lambda_ == estimator.lambda_
                  w_o == IF lambda_ = inf THEN W(t)
                         ELSE Div(Mul(lambda_, W(t)), Add(Mul(W(t), W(t)), lambda_))
              IN  ret[t] = Add(DM(t), Mul(w_o, Sub(args.reward[t], QLogged(t))))
        /\ estimator.lambda_ = inf =>
              ret = DoublyRobust_estimate_round_rewards(
                        [cls |-> "DoublyRobust", lambda_ |-> inf, use_estimated_pscore |-> FALSE],
                        args.reward, args.action, args.pscore, args.action_dist,
                        args.estimated_rewards_by_reg_model, args.position)

\* lambda_ = 1 and a round of weight 2, shrunk to 2/5, with a nonzero residual
C6_Witness ==
    /\ ReturnedRoundRewards("DoublyRobustWithShrinkage")
    /\ estimator.lambda_ = Num(1)
    /\ \E t \in Rounds : W(t) = Num(2) /\ args.reward[t] # QLogged(t)

\* the rounds of a Replay Method call whose evaluation probability of the logged action
\* is exactly 1 (position 0 when no position is given)
Matched ==
    {t \in Rounds :
        args.action_dist[t][args.action[t]]
            [IF args.position = None THEN 0 ELSE Get(args.position)[t]] = Num(1)}

\* the sum of the rewards of the rounds in M
RewardOver(M) == Sum([t \in Rounds |-> IF t \in M THEN args.reward[t] ELSE Num(0)])

\* C7: Replay Method: a round matches iff action_dist at the logged action is exactly 1;
\* with at least one match the round reward is match_t * reward_t / (matches / T), the
\* policy value is the sum of the rewards of the matching rounds over their number, and
\* it is the mean reward when every round matches.
C7_ReplayFormula ==
    (pc = "returned" /\ estimator.cls = "ReplayMethod" /\ Matched # {}) =>
        LET n == Cardinality(Matched)
            T == Len(args.reward)
            value == IF op = "estimate_policy_value" THEN ret ELSE Mean(ret)
        IN  /\ op = "_estimate_round_rewards" =>
                  \A t \in Rounds :
                      ret[t] = IF t \in Matched
                               THEN Div(args.reward[t], Float(n, T)) ELSE Num(0)
            /\ value = Div(RewardOver(Matched), Num(n))
            /\ Matched = Rounds => value = Div(RewardOver(Rounds), Num(T))

\* one round matches and one round of probability 1/2 does not
C7_Witness ==
    /\ ReturnedRoundRewards("ReplayMethod")
    /\ Len(args.reward) = 2
    /\ Cardinality(Matched) = 1
    /\ \E t \in Rounds : PiLogged(t) = half /\ args.reward[t] = Num(1)
    /\ \E t \in Matched : ret[t] = Num(2)

\* C8: Replay Method: when no round matches, _estimate_round_rewards returns T zeros and
\* estimate_policy_value returns 0; neither raises nor divides by the zero match rate.
C8_ReplayNoMatch ==
    (estimator.cls = "ReplayMethod" /\ pc \in {"returned", "raised"} /\ Matched = {}) =>
        /\ pc = "returned"
        /\ op = "_estimate_round_rewards" => ret = [t \in Rounds |-> Num(0)]
        /\ op = "estimate_policy_value" => ret = Num(0)

C8_Witness ==
    /\ pc = "returned"
    /\ estimator.cls = "ReplayMethod"
    /\ op = "estimate_policy_value"
    /\ Matched = {}
    /\ Len(args.reward) = 2
    /\ \E t \in Rounds : args.reward[t] = Num(1)
    /\ ret = Num(0)

\* C9: the IPW round reward is reward_t * min(w_t, lambda_), unclipped for lambda_ = +inf;
\* on T=3, reward=[1,0,1], action=[0,1,0], pscore=[0.5,0.5,0.5], one-hot action_dist and
\* lambda_ = +inf the round rewards are [2,0,2] and their mean is 4/3.
C9_IPWFormula ==
    ReturnedRoundRewards("InverseProbabilityWeighting") =>
        /\ \A t \in Rounds :
              ret[t] = Mul(args.reward[t],
                           IF estimator.lambda_ = inf \/ Leq(W(t), estimator.lambda_)
                           THEN W(t) ELSE estimator.lambda_)
        /\ ( /\ estimator.lambda_ = inf
             /\ args.reward = <<Num(1), Num(0), Num(1)>>
             /\ args.action = <<0, 1, 0>>
             /\ args.pscore = <<half, half, half>>
             /\ \A t \in Rounds : PiLogged(t) = Num(1) )
           => (ret = <<Num(2), Num(0), Num(2)>> /\ Mean(ret) = Float(4, 3))

C9_Witness ==
    /\ ReturnedRoundRewards("InverseProbabilityWeighting")
    /\ estimator.lambda_ = inf
    /\ args.reward = <<Num(1), Num(0), Num(1)>>
    /\ args.action = <<0, 1, 0>>
    /\ args.pscore = <<half, half, half>>
    /\ \A t \in Rounds : PiLogged(t) = Num(1)
    /\ ret = <<Num(2), Num(0), Num(2)>>

\* the sum of the raw weights of the call
SumW == Sum([t \in Rounds |-> W(t)])

\* C10: SNIPW: when the raw weights do not sum to 0, every round reward is
\* reward_t * w_t over the one denominator mean(w), and the mean of the round rewards is
\* sum(w_t * reward_t) / sum(w_t), whatever the lambda_ of the instance.
C10_SNIPWRatioOfSums ==
    (ReturnedRoundRewards("SelfNormalizedInverseProbabilityWeighting") /\ SumW # Num(0)) =>
        /\ \A t \in Rounds :
              ret[t] = Div(Mul(args.reward[t], W(t)), Div(SumW, Num(Len(args.reward))))
        /\ Mean(ret) = Div(Sum([t \in Rounds |-> Mul(W(t), args.reward[t])]), SumW)

\* lambda_ = 1 and a round of weight 2, which clipping would change
C10_Witness ==
    /\ ReturnedRoundRewards("SelfNormalizedInverseProbabilityWeighting")
    /\ estimator.lambda_ = Num(1)
    /\ \E t \in Rounds : W(t) = Num(2) /\ args.reward[t] = Num(1)
    /\ \E t \in Rounds : W(t) = half /\ args.reward[t] = Num(0)

\* C11: the Direct Method round reward is the sum over the actions of
\* action_dist[t, a, position_t] * estimated_rewards_by_reg_model[t, a, position_t];
\* the reward, action and pscore passed along with the call do not enter it.
C11_DirectMethodFormula ==
    ReturnedRoundRewards("DirectMethod") =>
        /\ \A t \in Rounds : ret[t] = DM(t)
        /\ ret = DirectMethod_estimate_round_rewards(
                     args.action_dist, args.estimated_rewards_by_reg_model, args.position)

\* a round of the uniform policy (value 1/2) and a round of the deterministic policy
\* (value 1), with logged data that the DR correction would use
C11_Witness ==
    /\ ReturnedRoundRewards("DirectMethod")
    /\ Len(args.action_dist) = 2
    /\ \E t \in Rounds : ret[t] = half /\ args.reward[t] = Num(1) /\ args.action[t] = 1
    /\ \E t \in Rounds : ret[t] = Num(1) /\ args.reward[t] = Num(0) /\ args.pscore[t] = half

\* C12: the DR round reward is DM_t + min(w_t, lambda_) * (reward_t - q_hat_t), where
\* q_hat_t is the model's value for the logged action of round t at the position of
\* round t.
C12_DoublyRobustFormula ==
    ReturnedRoundRewards("DoublyRobust") =>
        \A t \in Rounds :
            ret[t] = Add(DM(t),
                         Mul(Minimum(W(t), estimator.lambda_),
                             Sub(args.reward[t],
                                 args.estimated_rewards_by_reg_model
                                     [t][args.action[t]][Get(args.position)[t]])))

\* lambda_ = 1 clips a weight of 2 on a round with residual -1; on another round the
\* logged action is 1, whose model value 0 differs from that of action 0
C12_Witness ==
    /\ ReturnedRoundRewards("DoublyRobust")
    /\ estimator.lambda_ = Num(1)
    /\ \E t \in Rounds : W(t) = Num(2) /\ args.reward[t] = Num(0) /\ ret[t] = Num(0)
    /\ \E t \in Rounds :
          /\ W(t) = Num(1)
          /\ args.action[t] = 1
          /\ args.reward[t] = Num(1)
          /\ ret[t] = Float(3, 2)

\* C13: the SNDR round reward is DM_t + w_t * (reward_t - q_hat_t) / mean_s(w_s) with the
\* raw weights, so that the mean of the round rewards is
\* mean_t(DM_t) + sum_t w_t (reward_t - q_hat_t) / sum_t w_t; lambda_ does not enter.
C13_SNDRFormula ==
    ReturnedRoundRewards("SelfNormalizedDoublyRobust") =>
        LET T == Len(args.reward)
            residual == [t \in Rounds |-> Mul(W(t), Sub(args.reward[t], QLogged(t)))]
        IN  /\ \A t \in Rounds :
                  ret[t] = Add(DM(t), Div(residual[t], Div(SumW, Num(T))))
            /\ Mean(ret) = Add(Mean([t \in Rounds |-> DM(t)]), Div(Sum(residual), SumW))

\* lambda_ = 1 and a round of weight 2, which clipping would change, with a nonzero
\* residual; the weights of the two rounds differ
C13_Witness ==
    /\ ReturnedRoundRewards("SelfNormalizedDoublyRobust")
    /\ estimator.lambda_ = Num(1)
    /\ Len(args.reward) = 2
    /\ \E t \in Rounds : W(t) = Num(2) /\ args.reward[t] # QLogged(t)
    /\ \E t \in Rounds : W(t) = half /\ args.reward[t] # QLogged(t)

\* the balanced weight of round t after clipping:
\* v_t = min(action_dist[t, action_t, position_t] * importance_sampling_ratio_t, lambda_)
V(t) == Minimum(Mul(PiLogged(t), args.importance_sampling_ratio[t]), estimator.lambda_)

\* the sum of the clipped balanced weights of the call
SumV == Sum([t \in Rounds |-> V(t)])

\* C14: the Balanced IPW round reward is reward_t * v_t / mean_s(v_s), the mean taken
\* over the clipped weights, and the mean of the round rewards is
\* sum_t v_t reward_t / sum_t v_t.
C14_BalancedFormula ==
    ReturnedRoundRewards("BalancedInverseProbabilityWeighting") =>
        /\ \A t \in Rounds :
              ret[t] = Div(Mul(args.reward[t], V(t)), Div(SumV, Num(Len(args.reward))))
        /\ Mean(ret) = Div(Sum([t \in Rounds |-> Mul(V(t), args.reward[t])]), SumV)

\* lambda_ = 1 clips a weight of 2 to 1; the other weight is 1/2, so the mean of the
\* clipped weights (3/4) is not that of the raw weights (5/4)
C14_Witness ==
    /\ ReturnedRoundRewards("BalancedInverseProbabilityWeighting")
    /\ estimator.lambda_ = Num(1)
    /\ Len(args.reward) = 2
    /\ \E t \in Rounds :
          /\ Mul(PiLogged(t), args.importance_sampling_ratio[t]) = Num(2)
          /\ args.reward[t] = Num(1)
          /\ ret[t] = Float(4, 3)
    /\ \E t \in Rounds : V(t) = half

RECURSIVE Max(_)
\* the largest element of a nonempty vector
Max(v) ==
    IF Len(v) = 1 THEN v[1]
    ELSE LET m == Max(SubSeq(v, 1, Len(v) - 1))
         IN  IF Leq(m, v[Len(v)]) THEN v[Len(v)] ELSE m

\* the raw weights of the call
RawWeights == ImportanceWeight(args.action_dist, args.action, Get(args.position), args.pscore)

\* thresholds that __post_init__ accepts
Thresholds == {Num(0), half, Num(1), Num(2), inf}

\* C15: in InverseProbabilityWeighting and DoublyRobust the weights applied to the rounds
\* are the raw weights clipped at lambda_: none exceeds lambda_, and on the same raw
\* weights the largest weight under a threshold lambda1 is at most the largest under any
\* lambda2 >= lambda1.
C15_ClippingMonotone ==
    (pc = "returned" /\ op = "_estimate_round_rewards"
        /\ estimator.cls \in {"InverseProbabilityWeighting", "DoublyRobust"}) =>
        LET applied == Clip(RawWeights, estimator.lambda_)
        IN  /\ \A t \in Rounds :
                  /\ Leq(applied[t], estimator.lambda_)
                  /\ ret[t] = IF estimator.cls = "DoublyRobust"
                              THEN Add(DM(t), Mul(applied[t], Sub(args.reward[t], QLogged(t))))
                              ELSE Mul(args.reward[t], applied[t])
            /\ \A lambda1, lambda2 \in Thresholds :
                  Leq(lambda1, lambda2) =>
                      Leq(Max(Clip(RawWeights, lambda1)), Max(Clip(RawWeights, lambda2)))

\* lambda_ = 1 with raw weights 2 and 1/2: the applied weights are 1 and 1/2
C15_Witness ==
    /\ ReturnedRoundRewards("InverseProbabilityWeighting")
    /\ estimator.lambda_ = Num(1)
    /\ \E t \in Rounds : W(t) = Num(2) /\ args.reward[t] = Num(1) /\ ret[t] = Num(1)
    /\ \E t \in Rounds : W(t) = half /\ args.reward[t] = Num(1) /\ ret[t] = half
    /\ Max(Clip(RawWeights, half)) = half
    /\ Max(Clip(RawWeights, Num(2))) = Num(2)

\* the constructor of a class with lambda_ has run
Constructed == op = "__init__" /\ args.cls \in Classes \ NoHyperparameter

\* C16: the constructor of every estimator with lambda_ fails, leaving no instance, when
\* lambda_ is negative, NaN or not an int or float; with the other field valid it accepts
\* every lambda_ >= 0, 0 and +inf included, and the instance holds that very value.
C16_LambdaValidated ==
    Constructed =>
        LET lambda_ == args.lambda_
            number == lambda_.type \in {"int", "float"}
        IN  /\ (~number \/ IsNan(lambda_.val) \/ Lt(lambda_.val, Num(0))) =>
                  (pc = "failed" /\ estimator = NoInstance)
            /\ (number /\ Leq(Num(0), lambda_.val) /\ IsBool(args.use_estimated_pscore)) =>
                  /\ pc = "constructed"
                  /\ estimator.cls = args.cls
                  /\ estimator.lambda_ = lambda_.val

\* DoublyRobustWithShrinkage(lambda_=-1.0) has failed
C16_Witness ==
    /\ Constructed
    /\ args.cls = "DoublyRobustWithShrinkage"
    /\ args.lambda_ = Py("float", Num(-1))
    /\ IsBool(args.use_estimated_pscore)
    /\ pc = "failed"

\* C17: the constructor of every estimator with the field use_estimated_pscore fails when
\* the value given for it is not a bool.
C17_FlagValidated ==
    (Constructed /\ args.cls \in HasFlag /\ ~IsBool(args.use_estimated_pscore)) =>
        pc = "failed"

\* a call of estimate_policy_value or estimate_interval has ended
PublicCallEnded ==
    pc \in {"returned", "raised"} /\ op \in {"estimate_policy_value", "estimate_interval"}

\* the outcome of the operation of the current call on the arguments a
Outcome(a) ==
    CASE op = "_estimate_round_rewards" -> call_estimate_round_rewards(estimator, a)
      [] op = "estimate_policy_value" -> estimate_policy_value(estimator, a)
      [] op = "estimate_interval" -> estimate_interval(estimator, a)

\* the current call has ended as r says
EndedAs(r) == IF r.raised THEN pc = "raised" /\ ret = None ELSE pc = "returned" /\ ret = r.value

\* the propensity vector that use_estimated_pscore selects, and the other one
SelectedPscore == IF estimator.use_estimated_pscore THEN args.estimated_pscore ELSE args.pscore

OtherPscore == IF estimator.use_estimated_pscore THEN args.pscore ELSE args.estimated_pscore

\* C18 as stated: a call of estimate_policy_value or estimate_interval on an estimator
\* with use_estimated_pscore fails unless exactly the selected one of pscore and
\* estimated_pscore is supplied.
C18_ExactlyOnePropensity ==
    (PublicCallEnded /\ estimator.cls \in HasFlag
        /\ ~(SelectedPscore # None /\ OtherPscore = None)) =>
        pc = "raised"

\* C18 amended: the call fails, before any round reward is computed, when the selected
\* one of pscore and estimated_pscore is not supplied (neither is, or only the other one);
\* the other one is ignored: supplying it as well changes neither whether the call
\* returns nor what it returns, and a call with valid arrays and both supplied returns.
C18_SelectedPropensityRequired ==
    (PublicCallEnded /\ estimator.cls \in HasFlag) =>
        /\ SelectedPscore = None => (pc = "raised" /\ ret = None)
        /\ EndedAs(Outcome(IF estimator.use_estimated_pscore
                           THEN [args EXCEPT !.pscore = None]
                           ELSE [args EXCEPT !.estimated_pscore = None]))
        /\ ( /\ SelectedPscore # None
             /\ IsDistribution(args.action_dist)
             /\ \A t \in Rounds : Lt(Num(0), Get(SelectedPscore)[t]) )
           => pc = "returned"

\* use_estimated_pscore is True and only pscore is supplied, with valid arrays:
\* estimate_interval has raised
C18_Witness ==
    /\ pc = "raised"
    /\ op = "estimate_interval"
    /\ estimator.cls = "DoublyRobust"
    /\ estimator.use_estimated_pscore
    /\ args.estimated_pscore = None
    /\ args.pscore # None
    /\ IsDistribution(args.action_dist)
    /\ \A t \in Rounds : Lt(Num(0), Get(args.pscore)[t])

\* check_array on each input and check_ope_inputs on action_dist together with the
\* position, action, reward, propensity, model and sampling-ratio inputs of the class
InputsPass ==
    CASE estimator.cls = "ReplayMethod" ->
           check_ope_inputs(args.action_dist, args.position, Some(args.action),
                            Some(args.reward), None, None, None)
      [] estimator.cls = "DirectMethod" ->
           check_ope_inputs(args.action_dist, args.position, None, None, None,
                            Some(args.estimated_rewards_by_reg_model), None)
      [] estimator.cls = "BalancedInverseProbabilityWeighting" ->
           check_ope_inputs(args.action_dist, args.position, Some(args.action),
                            Some(args.reward), None, None, Some(args.importance_sampling_ratio))
      [] estimator.cls \in HasFlag ->
           /\ check_array(SelectedPscore)
           /\ check_ope_inputs(args.action_dist, args.position, Some(args.action),
                               Some(args.reward), SelectedPscore,
                               IF estimator.cls \in TakesModel
                               THEN Some(args.estimated_rewards_by_reg_model) ELSE None,
                               None)

\* C19: when the inputs of a call of estimate_policy_value or estimate_interval do not
\* pass the validation, the call fails: no round reward is computed and neither a scalar
\* nor an interval is returned.
C19_ValidationBeforeRoundRewards ==
    (PublicCallEnded /\ ~InputsPass) => (pc = "raised" /\ ret = None)

\* C20: a call of _estimate_round_rewards, estimate_policy_value or estimate_interval
\* that leaves position out ends as the same call with position = zeros(n_rounds).
C20_OmittedPositionIsZeros ==
    (pc \in {"returned", "raised"} /\ op # "__init__" /\ args.position = None) =>
        EndedAs(Outcome([args EXCEPT !.position = Some(Zeros(args.action_dist))]))

(***************************************************************************)
(* estimate_interval: seeds, bounds and defaults                           *)
(***************************************************************************)
\* a call of estimate_interval has returned
IntervalReturned == pc = "returned" /\ op = "estimate_interval"

\* C21: a call of estimate_interval with the inputs, alpha, n_bootstrap_samples and
\* non-None random_state of an earlier call on the same instance returns the mean, lower
\* bound and upper bound that the earlier call returned, whatever calls were made in
\* between and whatever the process-wide generator yields.
C21_SeededIntervalReproducible ==
    (IntervalReturned /\ kept # None /\ Passed(args) = kept.args) => ret = kept.ret

\* a seeded call has returned the interval of an earlier call although the process-wide
\* generator would have resampled differently
C21_Witness ==
    /\ IntervalReturned /\ kept # None /\ Passed(args) = kept.args
    /\ ret = kept.ret
    /\ ret.lower # ret.upper
    /\ Outcome([args EXCEPT !.random_state = None]) # Returned(ret)

\* the round rewards that the returned call of estimate_interval resampled
IntervalSamples ==
    estimate_round_rewards(estimator,
        IF estimator.cls \in HasFlag
        THEN Delegated(args, Get(SelectPscore(estimator, args.pscore, args.estimated_pscore)))
        ELSE [args EXCEPT !.position = Some(PositionOrZeros(args.position, args.action_dist))])

\* a call of estimate_interval has returned a mean and two percentiles
IntervalComputed == IntervalReturned /\ "lower" \in DOMAIN ret

\* x lies between the smallest and the largest of the resampled round rewards
WithinSamples(x) ==
    LET s == Sorted(IntervalSamples) IN Leq(s[1], x) /\ Leq(x, s[Len(s)])

\* C22 as stated: for every result of estimate_interval, lower <= mean <= upper.
C22_MeanWithinBounds ==
    IntervalComputed => Leq(ret.lower, ret.mean) /\ Leq(ret.mean, ret.upper)

\* C22: for every result of estimate_interval on finite round rewards (any resampling
\* outcome, any alpha, any n_bootstrap_samples >= 1), lower <= upper, and the mean, the
\* lower bound and the upper bound all lie between the smallest and the largest round
\* reward.
C22_BoundsOrderedWithinSamples ==
    IntervalComputed =>
        /\ Leq(ret.lower, ret.upper)
        /\ WithinSamples(ret.lower) /\ WithinSamples(ret.mean) /\ WithinSamples(ret.upper)

\* two resamples with different means gave lower < upper, and the mean of the round
\* rewards is not between them
C22_Witness ==
    /\ IntervalComputed
    /\ Lt(ret.lower, ret.upper)
    /\ Lt(ret.upper, ret.mean)
    /\ WithinSamples(ret.lower) /\ WithinSamples(ret.mean)

\* C23: for every estimator, a call of estimate_interval without alpha and without
\* n_bootstrap_samples returns what the call with alpha = 0.05 and
\* n_bootstrap_samples = 10000 on the same inputs, seed and generator returns.
C23_DefaultsOfEveryEstimator ==
    (IntervalReturned /\ args.alpha = None /\ args.n_bootstrap_samples = None) =>
        Outcome([args EXCEPT !.alpha = Some(Float(1, 20)),
                             !.n_bootstrap_samples = Some(10000)]) = Returned(ret)

(***************************************************************************)
(* the propensity source                                                   *)
(***************************************************************************)
\* what a caller may pass for a propensity vector: nothing, zeros, which fail the
\* validation, and two vectors of propensities
PropensityArgs ==
    {None, Some([t \in Rounds |-> Num(0)]), Some([t \in Rounds |-> half]),
     Some([t \in Rounds |-> Float(1, 4)])}

\* the arguments of the current call with x for the propensity vector that
\* use_estimated_pscore does not select
WithOtherPscore(x) ==
    IF estimator.use_estimated_pscore
    THEN [args EXCEPT !.pscore = x] ELSE [args EXCEPT !.estimated_pscore = x]

\* the arguments of the current call with x for the selected propensity vector
WithSelectedPscore(x) ==
    IF estimator.use_estimated_pscore
    THEN [args EXCEPT !.estimated_pscore = x] ELSE [args EXCEPT !.pscore = x]

\* C25: for the six estimators with use_estimated_pscore, a call of
\* estimate_policy_value or estimate_interval ends the same way, with the same result,
\* whatever is passed for the propensity vector that the flag does not select: another
\* vector, a vector that fails the validation, or nothing.
C25_OtherPropensityIgnored ==
    (PublicCallEnded /\ estimator.cls \in HasFlag) =>
        \A x \in PropensityArgs : EndedAs(Outcome(WithOtherPscore(x)))

\* use_estimated_pscore is True and the call has returned a result that another
\* estimated_pscore would change, and that no pscore changes
C25_Witness ==
    /\ PublicCallEnded /\ estimator.cls \in HasFlag
    /\ estimator.use_estimated_pscore
    /\ pc = "returned"
    /\ args.pscore # None
    /\ \E x \in PropensityArgs : ~EndedAs(Outcome(WithSelectedPscore(x))) /\ x # None
    /\ \A x \in PropensityArgs : EndedAs(Outcome(WithOtherPscore(x)))

(***************************************************************************)
(* _estimate_mse_score                                                     *)
(***************************************************************************)
\* a call of _estimate_mse_score on an instance of a class in classes has returned
ReturnedMseScore(classes) ==
    pc = "returned" /\ op = "_estimate_mse_score" /\ estimator.cls \in classes

\* the raw weights clipped at lambda_
ClippedWeights == [t \in Rounds |-> Minimum(W(t), estimator.lambda_)]

\* the round rewards of the instance as C9 and C12 give them
OwnRoundRewards ==
    [t \in Rounds |->
        IF estimator.cls = "InverseProbabilityWeighting"
        THEN Mul(args.reward[t], ClippedWeights[t])
        ELSE Add(DM(t), Mul(ClippedWeights[t], Sub(args.reward[t], QLogged(t))))]

\* C26: for IPW and DR, _estimate_mse_score returns (population variance of the
\* estimator's own round rewards) / T plus the square of a bias term; the bias term is
\* the result of the high-probability upper bound when use_bias_upper_bound is True and
\* of the direct bias estimator when it is False, both called with the raw weights as
\* iw and min(iw, lambda_) as iw_hat, for DR also with q_hat of the logged action; the
\* variance term is not negative.
C26_MseScoreOfClipping ==
    ReturnedMseScore({"InverseProbabilityWeighting", "DoublyRobust"}) =>
        LET T == Len(args.reward)
            mean == Div(Sum(OwnRoundRewards), Num(T))
            squares == [t \in Rounds |-> Mul(Sub(OwnRoundRewards[t], mean),
                                             Sub(OwnRoundRewards[t], mean))]
        IN  /\ ret.sample_variance = Div(Div(Sum(squares), Num(T)), Num(T))
            /\ Leq(Num(0), ret.sample_variance)
            /\ ret.squared.fn = IF args.use_bias_upper_bound
                                THEN "estimate_high_probability_upper_bound_bias"
                                ELSE "estimate_bias_in_ope"
            /\ ret.squared.reward = args.reward
            /\ ret.squared.iw = [t \in Rounds |-> W(t)]
            /\ ret.squared.iw_hat = ClippedWeights
            /\ ret.squared.q_hat = IF estimator.cls = "DoublyRobust"
                                   THEN Some([t \in Rounds |-> QLogged(t)]) ELSE None

\* DR with lambda_ = 1 on two rounds of weights 2 and 1/2: the variance of the round
\* rewards is positive and the upper bound gets the clipped weights
C26_Witness ==
    /\ ReturnedMseScore({"DoublyRobust"})
    /\ estimator.lambda_ = Num(1)
    /\ Len(args.reward) = 2
    /\ args.use_bias_upper_bound
    /\ Lt(Num(0), ret.sample_variance)
    /\ ret.squared.iw = <<Num(2), half>>
    /\ ret.squared.iw_hat = <<Num(1), half>>

\* the weight by which _estimate_round_rewards of the class of the instance multiplies
\* the reward or the correction of round t
OwnWeight(t) ==
    LET lambda_ == estimator.lambda_
    IN  CASE estimator.cls \in {"InverseProbabilityWeighting", "DoublyRobust"} ->
               Minimum(W(t), lambda_)
          [] estimator.cls \in {"SelfNormalizedInverseProbabilityWeighting",
                                "SelfNormalizedDoublyRobust"} ->
               Div(W(t), Div(SumW, Num(Len(args.reward))))
          [] estimator.cls = "SwitchDoublyRobust" ->
               IF Leq(W(t), lambda_) THEN W(t) ELSE Num(0)
          [] estimator.cls = "DoublyRobustWithShrinkage" ->
               IF lambda_ = inf THEN W(t)
               ELSE Div(Mul(lambda_, W(t)), Add(Mul(W(t), W(t)), lambda_))

\* C27: for every class with _estimate_mse_score, the iw_hat handed to the bias
\* estimator is, round by round, the weight that the class's own
\* _estimate_round_rewards applies.
C27_BiasWeightIsOwnWeight ==
    ReturnedMseScore(HasFlag) => ret.squared.iw_hat = [t \in Rounds |-> OwnWeight(t)]

\* C28: for IPW, DR, Switch-DR and DRos, when use_bias_upper_bound is True the delta
\* given to _estimate_mse_score is the delta handed to the high-probability upper bound.
C28_DeltaHandedOn ==
    ( /\ ReturnedMseScore({"InverseProbabilityWeighting", "DoublyRobust",
                           "SwitchDoublyRobust", "DoublyRobustWithShrinkage"})
      /\ args.use_bias_upper_bound ) =>
        ret.squared.delta = args.delta

(***************************************************************************)
(* bounds of the self-normalized policy values                             *)
(***************************************************************************)
\* estimate_policy_value of an instance of cls has returned
ReturnedPolicyValue(cls) ==
    pc = "returned" /\ op = "estimate_policy_value" /\ estimator.cls = cls

\* the evaluation probability of the logged action of round t, at position 0 when the
\* call gives no position
PiOfLogged(t) ==
    args.action_dist[t][args.action[t]]
        [IF args.position = None THEN 0 ELSE Get(args.position)[t]]

\* the ret of the current call lies between the smallest and the largest reward
WithinRewards(x) ==
    LET r == Sorted(args.reward) IN Leq(r[1], x) /\ Leq(x, r[Len(r)])

\* C29: on every valid input in which at least one round gives positive evaluation
\* probability to its logged action, the SNIPW policy value lies between the smallest
\* and the largest observed reward.
C29_SNIPWWithinRewards ==
    ( /\ ReturnedPolicyValue("SelfNormalizedInverseProbabilityWeighting")
      /\ \E t \in Rounds : Lt(Num(0), PiOfLogged(t)) ) =>
        WithinRewards(ret)

\* a round of reward 1 and weight 2 and a round of reward 0 and weight 1: the value is
\* 2/3, where the rewards times the weights average 1
C29_Witness ==
    /\ ReturnedPolicyValue("SelfNormalizedInverseProbabilityWeighting")
    /\ Len(args.reward) = 2
    /\ \E t \in Rounds : Lt(Num(0), PiOfLogged(t)) /\ args.reward[t] = Num(0)
    /\ \E t \in Rounds : Lt(Num(0), PiOfLogged(t)) /\ args.reward[t] = Num(1)
    /\ ret = Float(2, 3)
    /\ WithinRewards(ret)

\* C30: for every lambda_ that construction accepts and every input with positive
\* importance_sampling_ratio and at least one round of positive evaluation probability
\* of its logged action, the mean of the clipped balanced weights is not 0, every round
\* reward of BalancedInverseProbabilityWeighting is finite, and their mean lies between
\* the smallest and the largest reward.
C30_BalancedWellDefined ==
    ( /\ ReturnedRoundRewards("BalancedInverseProbabilityWeighting")
      /\ \E t \in Rounds : Lt(Num(0), PiLogged(t)) ) =>
        /\ SumV # Num(0)
        /\ \A t \in Rounds : IsFinite(ret[t])
        /\ WithinRewards(Mean(ret))

================================================================================
